---------------------------- MODULE Spec2Model ----------------------------
(***************************************************************************)
(* A model of kensho: the field validators of package kensho/validation    *)
(* (the two check-digit validators and the calendar-date validator), the   *)
(* image preprocessing of package kensho and Client.Extract.               *)
(*                                                                         *)
(* A Go string is modelled as a sequence of characters.  An ASCII          *)
(* character is the one-character TLA+ string; a kanji is a romanised      *)
(* token, and counts three bytes as in UTF-8:                              *)
(*    NEN 年  GATSU 月  NICHI 日  GAN 元  DAI 第  GOU 号                   *)
(*    REI 令  WA 和  HEI 平  SEI 成  SHOU 昭  TAI 大  SHO 正  MEI 明       *)
(*    JI 治  SHI 試  KEN 験                                                *)
(* TAB is the tab character.                                               *)
(***************************************************************************)
EXTENDS Integers, Sequences, FiniteSets, TLC

VARIABLES
    input,      \* what the function is called with
    called,     \* the function that has run on it, "none" before the call
    returned    \* what the function returned (FALSE before the call)

vars == <<input, called, returned>>

---------------------------------------------------------------------------
(* Characters and bytes *)

DigitChars == <<"0", "1", "2", "3", "4", "5", "6", "7", "8", "9">>

Digits == {DigitChars[i] : i \in 1..10}

Kanji ==
    {"NEN", "GATSU", "NICHI", "GAN", "DAI", "GOU", "REI", "WA", "HEI", "SEI",
     "SHOU", "TAI", "SHO", "MEI", "JI", "SHI", "KEN"}

\* The value of ch - '0' for a digit character.
DigitVal(c) == (CHOOSE i \in 1..10 : DigitChars[i] = c) - 1

IsDigit(c) == c \in Digits

\* A byte of value 0x80 or more: every byte of a kanji's UTF-8 encoding.
HighByte == "hi"

\* []byte(s): an ASCII character is one byte, a kanji three high bytes.
RECURSIVE Bytes(_)
Bytes(s) ==
    IF s = <<>> THEN <<>>
    ELSE (IF Head(s) \in Kanji THEN <<HighByte, HighByte, HighByte>> ELSE <<Head(s)>>)
         \o Bytes(Tail(s))

\* Whether s begins with the non-empty sequence old.
HasPrefix(s, old) ==
    /\ Len(s) >= Len(old)
    /\ SubSeq(s, 1, Len(old)) = old

\* strings.Replace(s, old, new, n) for a non-empty old: the first n
\* non-overlapping occurrences, left to right (all of them when n < 0).
RECURSIVE Replace(_, _, _, _)
Replace(s, old, new, n) ==
    IF s = <<>> \/ n = 0 THEN s
    ELSE IF HasPrefix(s, old)
         THEN new \o Replace(SubSeq(s, Len(old) + 1, Len(s)), old, new, n - 1)
         ELSE <<Head(s)>> \o Replace(Tail(s), old, new, n)

ReplaceAll(s, old, new) == Replace(s, old, new, -1)

Contains(s, old) == \E i \in 1..Len(s) : HasPrefix(SubSeq(s, i, Len(s)), old)

\* unicode.IsSpace on the characters of the model.
IsSpace(c) == c \in {" ", "TAB"}

RECURSIVE TrimLeft(_)
TrimLeft(s) == IF s # <<>> /\ IsSpace(Head(s)) THEN TrimLeft(Tail(s)) ELSE s

RECURSIVE TrimRight(_)
TrimRight(s) ==
    IF s # <<>> /\ IsSpace(s[Len(s)]) THEN TrimRight(SubSeq(s, 1, Len(s) - 1)) ELSE s

TrimSpace(s) == TrimRight(TrimLeft(s))

---------------------------------------------------------------------------
(* strconv.Atoi.  Its value is kept as the sequence of its decimal digits, *)
(* most significant first, because an 11-digit number does not fit the     *)
(* integers of the model checker; int is the 64-bit int of the build.      *)

\* math.MaxInt64 = 9223372036854775807, as decimal digits.
MaxInt64Digits == <<9, 2, 2, 3, 3, 7, 2, 0, 3, 6, 8, 5, 4, 7, 7, 5, 8, 0, 7>>

RECURSIVE StripZeros(_)
StripZeros(ds) == IF ds # <<>> /\ Head(ds) = 0 THEN StripZeros(Tail(ds)) ELSE ds

\* a <= b for two digit sequences of the same length.
RECURSIVE LeqDigits(_, _)
LeqDigits(a, b) ==
    IF a = <<>> THEN TRUE
    ELSE IF Head(a) # Head(b) THEN Head(a) < Head(b)
    ELSE LeqDigits(Tail(a), Tail(b))

\* Whether the magnitude ds fits an int (a negative one may reach 2^63; no
\* input of the validators keeps a minus sign in front of that many digits).
FitsInt(ds) ==
    LET sig == StripZeros(ds)
    IN  \/ Len(sig) < Len(MaxInt64Digits)
        \/ Len(sig) = Len(MaxInt64Digits) /\ LeqDigits(sig, MaxInt64Digits)

\* strconv.Atoi(string(bs)): an optional sign, then one or more ASCII
\* digits and nothing else, of a value that fits an int.
Atoi(bs) ==
    LET signed == bs # <<>> /\ Head(bs) \in {"+", "-"}
        body   == IF signed THEN Tail(bs) ELSE bs
        syntax == body # <<>> /\ \A i \in 1..Len(body) : IsDigit(body[i])
        ds     == IF syntax THEN [i \in 1..Len(body) |-> DigitVal(body[i])] ELSE <<>>
    IN  IF syntax /\ FitsInt(ds)
        THEN [err |-> FALSE, neg |-> signed /\ Head(bs) = "-", digits |-> StripZeros(ds)]
        ELSE [err |-> TRUE, neg |-> FALSE, digits |-> <<>>]

\* The int a successful Atoi returned, when it fits the model checker's integers.
RECURSIVE DigitsToInt(_)
DigitsToInt(ds) ==
    IF ds = <<>> THEN 0 ELSE 10 * DigitsToInt(SubSeq(ds, 1, Len(ds) - 1)) + ds[Len(ds)]

IntOf(r) == IF r.neg THEN 0 - DigitsToInt(r.digits) ELSE DigitsToInt(r.digits)

\* n % 10 and n / 10 on the digits of an int n (Go truncates towards zero).
Mod10(n) ==
    LET d == IF n.digits = <<>> THEN 0 ELSE n.digits[Len(n.digits)]
    IN  IF n.neg THEN 0 - d ELSE d

Div10(n) ==
    [n EXCEPT !.digits = IF n.digits = <<>> THEN <<>>
                         ELSE SubSeq(n.digits, 1, Len(n.digits) - 1)]

---------------------------------------------------------------------------
(* ValidateDriverLicenseNumber *)

\* The length both check-digit validators require of the normalised number.
NumberLen == 12

\* The weights with the first two exchanged.
weightsSwapped == <<4, 5, 3, 2, 7, 6, 5, 4, 3, 2, 1>>

weights == <<5, 4, 3, 2, 7, 6, 5, 4, 3, 2, 1>>

\* The loop over i = 0..10: the weighted sum, or an error at the first
\* byte that is not a digit.
RECURSIVE DriverLicenseSum(_, _, _)
DriverLicenseSum(number, i, sum) ==
    IF ~(i < 11) THEN [err |-> FALSE, sum |-> sum]
    ELSE LET digit == Atoi(<<number[i + 1]>>)
         IN  IF digit.err THEN [err |-> TRUE, sum |-> sum]
             ELSE DriverLicenseSum(number, i + 1,
                      IF i < Len(weights) THEN sum + IntOf(digit) * weights[i + 1]
                      ELSE sum)

ValidateDriverLicenseNumber(s) ==
    LET number == Bytes(ReplaceAll(ReplaceAll(ReplaceAll(s, <<" ">>, <<>>),
                                              <<"DAI">>, <<>>), <<"GOU">>, <<>>))
    IN  IF Len(number) # NumberLen THEN FALSE
        ELSE LET loop == DriverLicenseSum(number, 0, 0)
                 checkDigit == Atoi(<<number[12]>>)
             IN  IF loop.err \/ checkDigit.err THEN FALSE
                 ELSE (11 - (loop.sum % 11)) % 10 = IntOf(checkDigit)

---------------------------------------------------------------------------
(* ValidateMyNumber *)

\* The loop with the weights changing one digit early (i < 5 for i < 6).
RECURSIVE MyNumberSumEarly(_, _, _)
MyNumberSumEarly(n, i, sum) ==
    IF ~(i < 11) THEN sum
    ELSE LET digit  == Mod10(n)
             weight == IF i < 5 THEN i + 2 ELSE i - 4
         IN  MyNumberSumEarly(Div10(n), i + 1, sum + digit * weight)

\* The loop leaving out the leading digit (i < 10 for i < 11).
RECURSIVE MyNumberSumTen(_, _, _)
MyNumberSumTen(n, i, sum) ==
    IF ~(i < 10) THEN sum
    ELSE LET digit  == Mod10(n)
             weight == IF i < 6 THEN i + 2 ELSE i - 4
         IN  MyNumberSumTen(Div10(n), i + 1, sum + digit * weight)

\* The loop over i = 0..10 on n, least significant digit first.
RECURSIVE MyNumberSum(_, _, _)
MyNumberSum(n, i, sum) ==
    IF ~(i < 11) THEN sum
    ELSE LET digit  == Mod10(n)
             weight == IF i < 6 THEN i + 2 ELSE i - 4
         IN  MyNumberSum(Div10(n), i + 1, sum + digit * weight)

\* The validator without the case remainder <= 1: the check digit is always
\* 11 - remainder.
ValidateMyNumberNoZeroCase(s) ==
    LET number == Bytes(ReplaceAll(s, <<"-">>, <<>>))
    IN  IF Len(number) # NumberLen THEN FALSE
        ELSE LET n == Atoi(SubSeq(number, 1, 11))
             IN  IF n.err THEN FALSE
                 ELSE LET sum == MyNumberSum(n, 0, 0)
                          remainder == sum % 11
                          checkDigit == 11 - remainder
                          lastDigit == Atoi(<<number[12]>>)
                      IN  IF lastDigit.err THEN FALSE
                          ELSE checkDigit = IntOf(lastDigit)

ValidateMyNumber(s) ==
    LET number == Bytes(ReplaceAll(s, <<"-">>, <<>>))
    IN  IF Len(number) # NumberLen THEN FALSE
        ELSE LET n == Atoi(SubSeq(number, 1, 11))
             IN  IF n.err THEN FALSE
                 ELSE LET sum == MyNumberSum(n, 0, 0)
                          remainder == sum % 11
                          checkDigit == IF remainder > 1 THEN 11 - remainder ELSE 0
                          lastDigit == Atoi(<<number[12]>>)
                      IN  IF lastDigit.err THEN FALSE
                          ELSE checkDigit = IntOf(lastDigit)

---------------------------------------------------------------------------
(* The era table and the era pattern *)

Reiwa  == <<"REI", "WA">>
Heisei == <<"HEI", "SEI">>
Showa  == <<"SHOU", "WA">>
Taisho == <<"TAI", "SHO">>
Meiji  == <<"MEI", "JI">>

eraStartYears ==
    (Reiwa :> 2019) @@ (Heisei :> 1989) @@ (Showa :> 1926) @@ (Taisho :> 1912)
        @@ (Meiji :> 1868)

getEraKeys == DOMAIN eraStartYears

\* The longest run of ASCII digits s begins with (the greedy \d+; the empty
\* sequence when s begins with none).
RECURSIVE DigitRun(_)
DigitRun(s) ==
    IF s # <<>> /\ IsDigit(Head(s)) THEN <<Head(s)>> \o DigitRun(Tail(s)) ELSE <<>>

Drop(s, n) == SubSeq(s, n + 1, Len(s))

\* A group \d+ and the marker after it, at the start of s: the digits and
\* what follows the marker, ok when both are there.
DigitsThen(s, mark) ==
    LET ds == DigitRun(s)
    IN  IF ds # <<>> /\ HasPrefix(Drop(s, Len(ds)), <<mark>>)
        THEN [ok |-> TRUE, group |-> ds, rest |-> Drop(s, Len(ds) + 1)]
        ELSE [ok |-> FALSE, group |-> <<>>, rest |-> <<>>]

\* The group (\d+|GAN) and the marker NEN after it, at the start of s.
YearThen(s) ==
    IF HasPrefix(s, <<"GAN", "NEN">>)
    THEN [ok |-> TRUE, group |-> <<"GAN">>, rest |-> Drop(s, 2)]
    ELSE DigitsThen(s, "NEN")

\* warekiRegex matched at the very start of s: the submatches
\* <<whole, era, year, month, day>>, or <<>> when it does not match there.
MatchHere(s) ==
    IF \E e \in getEraKeys : HasPrefix(s, e)
    THEN LET era == CHOOSE e \in getEraKeys : HasPrefix(s, e)
             y == YearThen(Drop(s, Len(era)))
             m == DigitsThen(y.rest, "GATSU")
             d == DigitsThen(m.rest, "NICHI")
         IN  IF y.ok /\ m.ok /\ d.ok
             THEN << era \o y.group \o <<"NEN">> \o m.group \o <<"GATSU">>
                         \o d.group \o <<"NICHI">>,
                     era, y.group, m.group, d.group >>
             ELSE <<>>
    ELSE <<>>

\* warekiRegex.FindStringSubmatch(s): the pattern is not anchored, so the
\* leftmost match anywhere in s; <<>> (nil) when there is none.
RECURSIVE FindStringSubmatch(_)
FindStringSubmatch(s) ==
    IF s = <<>> THEN <<>>
    ELSE IF MatchHere(s) # <<>> THEN MatchHere(s)
    ELSE FindStringSubmatch(Tail(s))

---------------------------------------------------------------------------
(* fmt.Sprintf and time.Parse *)

\* The decimal digits of n >= 0, as characters (%d).
RECURSIVE FormatInt(_)
FormatInt(n) ==
    IF n < 10 THEN <<DigitChars[n + 1]>>
    ELSE FormatInt(n \div 10) \o <<DigitChars[(n % 10) + 1]>>

\* %02d of n >= 0: padded with a zero to two characters, never cut.
FormatInt02(n) == IF n < 10 THEN <<"0">> \o FormatInt(n) ELSE FormatInt(n)

\* fmt.Sprintf("%d-%02d-%02d", year, month, day)
SprintfDate(year, month, day) ==
    FormatInt(year) \o <<"-">> \o FormatInt02(month) \o <<"-">> \o FormatInt02(day)

\* The leap-year rule without the century exception.
isLeapEveryFourth(year) == year % 4 = 0

isLeap(year) == year % 4 = 0 /\ (year % 100 # 0 \/ year % 400 = 0)

daysIn(m, year) ==
    IF m = 2 THEN (IF isLeap(year) THEN 29 ELSE 28)
    ELSE IF m \in {4, 6, 9, 11} THEN 30 ELSE 31

\* The layouts, as the chunks time.Parse cuts them into.
LayoutZero == <<"stdLongYear", "-", "stdZeroMonth", "-", "stdZeroDay">>   \* "2006-01-02"
LayoutNum  == <<"stdLongYear", "-", "stdNumMonth", "-", "stdDay">>        \* "2006-1-2"

\* getnum(s, fixed): one or two digits (two when fixed) at the start of s.
getnum(s, fixed) ==
    IF ~(Len(s) >= 1 /\ IsDigit(s[1])) THEN [err |-> TRUE, n |-> 0, rest |-> s]
    ELSE IF ~(Len(s) >= 2 /\ IsDigit(s[2]))
         THEN IF fixed THEN [err |-> TRUE, n |-> 0, rest |-> s]
              ELSE [err |-> FALSE, n |-> DigitVal(s[1]), rest |-> Drop(s, 1)]
         ELSE [err |-> FALSE, n |-> DigitVal(s[1]) * 10 + DigitVal(s[2]), rest |-> Drop(s, 2)]

\* One chunk of the layout applied to the parse state st.
ParseChunk(chunk, st) ==
    LET value == st.value
    IN  CASE chunk = "stdLongYear" ->
                 IF Len(value) < 4 \/ ~IsDigit(value[1]) THEN [st EXCEPT !.err = TRUE]
                 ELSE LET p == Atoi(SubSeq(value, 1, 4))
                      IN  IF p.err THEN [st EXCEPT !.err = TRUE]
                          ELSE [st EXCEPT !.year = IntOf(p), !.value = Drop(value, 4)]
          [] chunk \in {"stdZeroMonth", "stdNumMonth"} ->
                 LET g == getnum(value, chunk = "stdZeroMonth")
                 IN  IF g.err THEN [st EXCEPT !.err = TRUE]
                     ELSE IF g.n <= 0 \/ 12 < g.n THEN [st EXCEPT !.err = TRUE]
                     ELSE [st EXCEPT !.month = g.n, !.value = g.rest]
          [] chunk \in {"stdZeroDay", "stdDay"} ->
                 LET g == getnum(value, chunk = "stdZeroDay")
                 IN  IF g.err THEN [st EXCEPT !.err = TRUE]
                     ELSE [st EXCEPT !.day = g.n, !.value = g.rest]
          [] OTHER ->        \* a literal byte of the layout
                 IF Len(value) = 0 \/ value[1] # chunk THEN [st EXCEPT !.err = TRUE]
                 ELSE [st EXCEPT !.value = Drop(value, 1)]

RECURSIVE ParseChunks(_, _)
ParseChunks(layout, st) ==
    IF st.err \/ layout = <<>> THEN st
    ELSE ParseChunks(Tail(layout), ParseChunk(Head(layout), st))

\* The zero time.Time and an error.
ParseFailed == [err |-> TRUE, year |-> 0, month |-> 0, day |-> 0]

\* time.Parse(layout, string(value)): the date, or an error when the value
\* does not follow the layout, text is left over, or the day is not one of
\* the month.
Parse(layout, value) ==
    LET st == ParseChunks(layout, [err |-> FALSE, value |-> value,
                                   year |-> 0, month |-> 1, day |-> 1])
    IN  IF st.err \/ st.value # <<>> THEN ParseFailed
        ELSE IF st.day < 1 \/ st.day > daysIn(st.month, st.year) THEN ParseFailed
             ELSE [err |-> FALSE, year |-> st.year, month |-> st.month, day |-> st.day]

---------------------------------------------------------------------------
(* warekiToTime and ValidateDate *)

\* warekiToTime without the replacement of GAN NEN by 1 NEN.
warekiToTimeNoGannen(s) ==
    LET warekiStr == TrimSpace(s)
        matches == FindStringSubmatch(warekiStr)
    IN  IF Len(matches) # 5 THEN ParseFailed
        ELSE LET era   == matches[2]
                 year  == Atoi(Bytes(matches[3]))
                 month == Atoi(Bytes(matches[4]))
                 day   == Atoi(Bytes(matches[5]))
             IN  IF year.err \/ month.err \/ day.err THEN ParseFailed
                 ELSE IF era \notin DOMAIN eraStartYears THEN ParseFailed
                 ELSE LET gregorianYear == eraStartYears[era] + IntOf(year) - 1
                          dateStr == SprintfDate(gregorianYear, IntOf(month), IntOf(day))
                      IN  Parse(LayoutZero, Bytes(dateStr))

warekiToTime(s) ==
    LET warekiStr == Replace(TrimSpace(s), <<"GAN", "NEN">>, <<"1", "NEN">>, 1)
        matches == FindStringSubmatch(warekiStr)
    IN  IF Len(matches) # 5 THEN ParseFailed
        ELSE LET era   == matches[2]
                 year  == Atoi(Bytes(matches[3]))
                 month == Atoi(Bytes(matches[4]))
                 day   == Atoi(Bytes(matches[5]))
             IN  IF year.err \/ month.err \/ day.err THEN ParseFailed
                 ELSE IF era \notin DOMAIN eraStartYears THEN ParseFailed
                 ELSE LET gregorianYear == eraStartYears[era] + IntOf(year) - 1
                          dateStr == SprintfDate(gregorianYear, IntOf(month), IntOf(day))
                      IN  Parse(LayoutZero, Bytes(dateStr))

layouts == <<LayoutNum, LayoutZero>>

ValidateDate(s) ==
    LET dateStr == TrimSpace(s)
    IN  IF ~warekiToTime(dateStr).err THEN TRUE
        ELSE LET plain == ReplaceAll(ReplaceAll(ReplaceAll(dateStr,
                              <<"NEN">>, <<"-">>), <<"GATSU">>, <<"-">>), <<"NICHI">>, <<>>)
             IN  \E i \in 1..Len(layouts) : ~Parse(layouts[i], Bytes(plain)).err

\* ValidateDate of the package without era support (src/unnamed/part_001):
\* the three markers are required, and one layout is tried.
ValidateDateNoEra(s) ==
    LET dateStr == TrimSpace(s)
    IN  IF \/ ~Contains(dateStr, <<"NEN">>)
           \/ ~Contains(dateStr, <<"GATSU">>)
           \/ ~Contains(dateStr, <<"NICHI">>)
        THEN FALSE
        ELSE LET plain == ReplaceAll(ReplaceAll(ReplaceAll(dateStr,
                              <<"NEN">>, <<"-">>), <<"GATSU">>, <<"-">>), <<"NICHI">>, <<>>)
             IN  ~Parse(LayoutNum, Bytes(plain)).err

---------------------------------------------------------------------------
(* The inputs of the check-digit validators *)

\* The seed numbers are Seed(0) .. Seed(MaxSeed).
MaxSeed == 3

\* The 12-digit number whose i-th digit is the last digit of k * i: all
\* zeros for k = 0, the number 123456789012 of the tests for k = 1, and a
\* number that uses every digit for k = 3.
Seed(k) == [i \in 1..12 |-> DigitChars[((k * i) % 10) + 1]]

SeedNumbers == {Seed(k) : k \in 0..MaxSeed}

\* Every number of S, and every one with one of its 11 payload digits rewritten.
EditOnce(S) == S \cup {[s EXCEPT ![i] = d] : s \in S, i \in 1..11, d \in Digits}

\* s with its last character replaced by c.
SetCheck(s, c) == [s EXCEPT ![Len(s)] = c]

AllChecks(S) == {SetCheck(s, c) : s \in S, c \in Digits}

DigitInputs == AllChecks(EditOnce(SeedNumbers))

\* Characters that are not digits: signs, separators of either validator,
\* a letter, a tab and a kanji that is no separator.
NoiseChars == {"+", "-", " ", "a", "TAB", "DAI", "GOU", "KEN"}

InsertAt(s, i, c) == SubSeq(s, 1, i) \o <<c>> \o SubSeq(s, i + 1, Len(s))

DeleteAt(s, i) == SubSeq(s, 1, i - 1) \o SubSeq(s, i + 1, Len(s))

\* One of the first two seed numbers with any check digit and one character
\* replaced by, or one inserted, a non-digit; or one character deleted.
NoiseInputs ==
    LET base == AllChecks({Seed(0), Seed(1)})
    IN  {[s EXCEPT ![i] = c] : s \in base, i \in 1..12, c \in NoiseChars}
        \cup {InsertAt(s, i, c) : s \in base, i \in 0..12, c \in NoiseChars}
        \cup {DeleteAt(s, i) : s \in base, i \in 1..12}

\* The other strings of the tests, the numbers as printed on the cards, and
\* a string of four kanji, 12 bytes long.
FixedInputs ==
    { <<>>,
      <<"1", "2", "3", "4", "5">>,
      <<"1", "2", "3", "4", "5", "6", "7", "8", "9", "0", "1", "a">>,
      <<"DAI", "1", "2", "3", "4", "5", "6", "7", "8", "9", "0", "1", "2", "GOU">>,
      <<"DAI", " ", "1", "2", "3", "4", "5", "6", "7", "8", "9", "0", "1", "2", " ", "GOU">>,
      <<"1", "2", "3", "4", "-", "5", "6", "7", "8", "-", "9", "0", "1", "8">>,
      <<"SHI", "KEN", "SHI", "KEN">> }

NumberInputs == DigitInputs \cup NoiseInputs \cup FixedInputs

---------------------------------------------------------------------------
(* The check-digit validators applied to one input *)

InitChecksum ==
    /\ input \in NumberInputs
    /\ called = "none"
    /\ returned = FALSE

CallValidateDriverLicenseNumber ==
    /\ called = "none"
    /\ called' = "ValidateDriverLicenseNumber"
    /\ returned' = ValidateDriverLicenseNumber(input)
    /\ UNCHANGED input

CallValidateMyNumber ==
    /\ called = "none"
    /\ called' = "ValidateMyNumber"
    /\ returned' = ValidateMyNumber(input)
    /\ UNCHANGED input

NextChecksum == CallValidateDriverLicenseNumber \/ CallValidateMyNumber

SpecChecksum == InitChecksum /\ [][NextChecksum]_vars

---------------------------------------------------------------------------
(* Properties of the check-digit validators *)

\* s without the characters of the set sep.
Strip(s, sep) == SelectSeq(s, LAMBDA c : c \notin sep)

LicenseSeparators == {" ", "DAI", "GOU"}

MyNumberSeparators == {"-"}

TwelveDigits(s) == Len(s) = 12 /\ \A i \in 1..12 : s[i] \in Digits

\* The digit d_i of a string of digits, i counted from 0.
D(s, i) == DigitVal(s[i + 1])

LicenseExpected(s) ==
    (11 - ((5 * D(s, 0) + 4 * D(s, 1) + 3 * D(s, 2) + 2 * D(s, 3) + 7 * D(s, 4)
            + 6 * D(s, 5) + 5 * D(s, 6) + 4 * D(s, 7) + 3 * D(s, 8) + 2 * D(s, 9)
            + 1 * D(s, 10)) % 11)) % 10

TestLicense == <<"1", "2", "3", "4", "5", "6", "7", "8", "9", "0", "1", "2">>

TestMyNumber == <<"1", "2", "3", "4", "5", "6", "7", "8", "9", "0", "1", "8">>

\* C1: for every input that is 12 ASCII digits d0..d11 once spaces and the
\* markers DAI and GOU are removed, ValidateDriverLicenseNumber returns true
\* exactly when d11 = (11 - ((5*d0 + 4*d1 + 3*d2 + 2*d3 + 7*d4 + 6*d5 + 5*d6
\* + 4*d7 + 3*d8 + 2*d9 + 1*d10) mod 11)) mod 10; "123456789012" is valid.
C1_LicenseCheckDigit ==
    called = "ValidateDriverLicenseNumber" =>
        LET n == Strip(input, LicenseSeparators)
        IN  /\ TwelveDigits(n) => (returned <=> D(n, 11) = LicenseExpected(n))
            /\ input = TestLicense => returned

\* A number written with its markers and spaces that the validator accepted.
C1_Witness ==
    /\ called = "ValidateDriverLicenseNumber"
    /\ TwelveDigits(Strip(input, LicenseSeparators))
    /\ Contains(input, <<"DAI">>) /\ Contains(input, <<" ">>)
    /\ returned

\* The reference formula of C2: the payload digits indexed i = 0..10 from the
\* rightmost one leftwards, weight(i) = i + 2 for i < 6 and i - 4 otherwise.
MyNumberWeight(i) == IF i < 6 THEN i + 2 ELSE i - 4

RECURSIVE MyNumberWeighted(_, _)
MyNumberWeighted(s, i) ==
    IF i > 10 THEN 0 ELSE D(s, 10 - i) * MyNumberWeight(i) + MyNumberWeighted(s, i + 1)

MyNumberRemainder(s) == MyNumberWeighted(s, 0) % 11

MyNumberExpected(s) ==
    IF MyNumberRemainder(s) <= 1 THEN 0 ELSE 11 - MyNumberRemainder(s)

\* C2: for every input that is 12 ASCII digits once the hyphens are removed,
\* ValidateMyNumber returns true exactly when the 12th digit is the check
\* digit of the reference formula; "123456789018" is valid.
C2_MyNumberCheckDigit ==
    called = "ValidateMyNumber" =>
        LET n == Strip(input, MyNumberSeparators)
        IN  /\ TwelveDigits(n) => (returned <=> D(n, 11) = MyNumberExpected(n))
            /\ input = TestMyNumber => returned

\* A hyphenated number the validator accepted.
C2_Witness ==
    /\ called = "ValidateMyNumber"
    /\ TwelveDigits(Strip(input, MyNumberSeparators))
    /\ Contains(input, <<"-">>)
    /\ returned

\* C3: both validators return false for every input whose normalised form
\* (separators stripped) is not exactly 12 characters long or holds a
\* character that is not an ASCII digit, a sign in the payload included.
C3_RejectsMalformed ==
    /\ called = "ValidateDriverLicenseNumber"
           => (~TwelveDigits(Strip(input, LicenseSeparators)) => ~returned)
    /\ called = "ValidateMyNumber"
           => (~TwelveDigits(Strip(input, MyNumberSeparators)) => ~returned)

\* The check digits 0..9 that make the payload of n a valid number.
LicenseChecks(n) == {c \in Digits : ValidateDriverLicenseNumber(SetCheck(n, c))}

MyNumberChecks(n) == {c \in Digits : ValidateMyNumber(SetCheck(n, c))}

\* C4: for each validator and every 11-digit payload exactly one check digit
\* in 0..9 makes the 12-digit string valid, so a valid number with only its
\* last digit replaced by a different digit is invalid.
C4_OneCheckDigit ==
    /\ called = "ValidateDriverLicenseNumber" =>
           LET n == Strip(input, LicenseSeparators)
               valid == LicenseChecks(n)
           IN  TwelveDigits(n) =>
                   /\ Cardinality(valid) = 1
                   /\ returned => valid = {n[12]}
    /\ called = "ValidateMyNumber" =>
           LET n == Strip(input, MyNumberSeparators)
               valid == MyNumberChecks(n)
           IN  TwelveDigits(n) =>
                   /\ Cardinality(valid) = 1
                   /\ returned => valid = {n[12]}

\* A valid individual number whose weighted sum leaves remainder 0 or 1, the
\* case in which the check digit is 0 and not 11 - remainder.
C4_Witness ==
    /\ called = "ValidateMyNumber"
    /\ TwelveDigits(input)
    /\ MyNumberRemainder(input) <= 1
    /\ returned

---------------------------------------------------------------------------
(* The inputs of the date validator *)

\* How many zeros are written in front of a year, month or day.
MaxZeroPad == 2

\* How many characters of other text are put before or after a date.
MaxJunk == 1

\* How many characters an era name that is not in the table has.
MaxNameLen == 2

RECURSIVE Zeros(_)
Zeros(k) == IF k = 0 THEN <<>> ELSE <<"0">> \o Zeros(k - 1)

\* The numbers of vals written in decimal, with 0..MaxZeroPad zeros in front.
Groups(vals) == {Zeros(k) \o FormatInt(v) : v \in vals, k \in 0..MaxZeroPad}

\* Twenty nines: more than an int holds.
HugeGroup == [i \in 1..20 |-> "9"]

\* The numbers of vals written in decimal as they are.
Plain(vals) == {FormatInt(v) : v \in vals}

\* Era years: the first year, leap years (Reiwa 2 = 2020, Heisei 12 = 2000),
\* a century that is no leap year (Meiji 33 = 1900), and the years around
\* Gregorian year 10000 (Reiwa 7981 = 9999, Reiwa 7982 = 10000).
EraYearGroups ==
    Groups({1, 2, 12}) \cup Plain({33, 7981, 7982}) \cup {<<"GAN">>, HugeGroup}

MonthGroups == Groups({1, 2, 12}) \cup Plain({0, 4, 13})

DayGroups == Groups({1, 29, 31}) \cup Plain({0, 28, 30, 32})

PlainYearGroups ==
    { <<"2", "0", "2", "3">>, <<"2", "0", "2", "4">>, <<"2", "0", "0", "0">>,
      <<"1", "9", "0", "0">>, <<"9", "9", "9", "9">>, <<"2", "3">>,
      <<"1", "2", "0", "2", "3">> }

\* The markers after the year, the month and the day: the kanji, a hyphen
\* (nothing after the day), or slashes.
MarkerStyles ==
    {<<<<y>>, <<m>>, d>> : y \in {"NEN", "-"}, m \in {"GATSU", "-"},
                           d \in {<<"NICHI">>, <<>>}}
        \cup {<<<<"/">>, <<"/">>, <<>>>>}

KanjiMarkers == <<<<"NEN">>, <<"GATSU">>, <<"NICHI">>>>

Date(name, y, m, d, style) == name \o y \o style[1] \o m \o style[2] \o d \o style[3]

EraDateInputs ==
    {Date(e, y, m, d, KanjiMarkers) :
        e \in getEraKeys, y \in EraYearGroups, m \in MonthGroups, d \in DayGroups}

PlainDateInputs ==
    {Date(<<>>, y, m, d, st) :
        y \in PlainYearGroups, m \in MonthGroups, d \in DayGroups, st \in MarkerStyles}

\* The dates of TestValidateDate the families above do not hold, and two
\* impossible ones.
SampleDates ==
    { Reiwa \o <<"3", "NEN", "9", "GATSU", "2", "2", "NICHI">>,
      Reiwa \o <<"GAN", "NEN", "5", "GATSU", "1", "NICHI">>,
      Heisei \o <<"GAN", "NEN", "1", "GATSU", "0", "1", "NICHI">>,
      Showa \o <<"5", "0", "NEN", "1", "0", "GATSU", "8", "NICHI">>,
      Reiwa \o <<"1", "0", "NEN", "2", "GATSU", "3", "0", "NICHI">>,
      <<"2", "0", "2", "3", "NEN", "1", "GATSU", "1", "5", "NICHI">>,
      <<"2", "0", "2", "3", "-", "0", "1", "-", "1", "5">>,
      <<"2", "0", "2", "3", "NEN", "2", "GATSU", "3", "0", "NICHI">> }

JunkChars == {"a", "1", "KEN", "GAN", " "}

RECURSIVE Strings(_, _)
Strings(chars, n) ==
    IF n = 0 THEN {<<>>}
    ELSE LET shorter == Strings(chars, n - 1)
         IN  shorter \cup {<<c>> \o t : c \in chars, t \in shorter}

\* A sample date with other text before and after it.
JunkInputs ==
    {pre \o d \o post :
        pre \in Strings(JunkChars, MaxJunk), d \in SampleDates,
        post \in Strings(JunkChars, MaxJunk)}

NameChars == {"SHI", "KEN", "REI", "WA", "HEI"}

\* A date in the era form whose era name is not in the table.
UnknownEraInputs ==
    {Date(n, y, m, d, KanjiMarkers) :
        n \in Strings(NameChars, MaxNameLen) \ ({<<>>} \cup getEraKeys),
        y \in {<<"1", "0">>, <<"2", "0", "2", "3">>, <<"GAN">>},
        m \in {<<"1">>, <<"1", "3">>}, d \in {<<"1">>, <<"3", "0">>}}

OtherDateInputs ==
    { <<>>, <<" ">>,
      <<"2", "0", "2", "3", "/", "0", "1", "/", "1", "5">>,
      <<" ", "2", "0", "2", "4", "NEN", "1", "2", "GATSU", "1", "NICHI", " ">>,
      <<"TAB", "2", "0", "2", "4", "-", "0", "2", "-", "2", "9", "TAB", " ">>,
      <<"2", "0", "2", "3", " ", "NEN", "1", "GATSU", "1", "5", "NICHI">> }

DateInputs ==
    EraDateInputs \cup PlainDateInputs \cup JunkInputs \cup UnknownEraInputs
        \cup OtherDateInputs

---------------------------------------------------------------------------
(* The date validators applied to one input *)

InitDate ==
    /\ input \in DateInputs
    /\ called = "none"
    /\ returned = FALSE

CallValidateDate ==
    /\ called = "none"
    /\ called' = "ValidateDate"
    /\ returned' = ValidateDate(input)
    /\ UNCHANGED input

CallValidateDateNoEra ==
    /\ called = "none"
    /\ called' = "ValidateDateNoEra"
    /\ returned' = ValidateDateNoEra(input)
    /\ UNCHANGED input

NextDate == CallValidateDate \/ CallValidateDateNoEra

SpecDate == InitDate /\ [][NextDate]_vars

---------------------------------------------------------------------------
(* Properties of the date validator *)

AllDigits(g) == g # <<>> /\ \A i \in 1..Len(g) : g[i] \in Digits

\* The ways to read b as Y y M m D d with non-empty digit groups Y, M, D and
\* the one-character markers y, m and the (possibly absent) marker d: a set
\* of at most one <<Y, M, D>>.
Fields(b, y, m, d) ==
    LET n == Len(b) - Len(d)
    IN  { <<SubSeq(b, 1, p[1] - 1), SubSeq(b, p[1] + 1, p[2] - 1), SubSeq(b, p[2] + 1, n)>> :
            p \in { q \in (1..Len(b)) \X (1..Len(b)) :
                      /\ q[1] < q[2] /\ q[2] < n + 1
                      /\ b[q[1]] = y /\ b[q[2]] = m
                      /\ SubSeq(b, n + 1, Len(b)) = d
                      /\ AllDigits(SubSeq(b, 1, q[1] - 1))
                      /\ AllDigits(SubSeq(b, q[1] + 1, q[2] - 1))
                      /\ AllDigits(SubSeq(b, q[2] + 1, n)) } }

KanjiFields(b) == Fields(b, "NEN", "GATSU", <<"NICHI">>)

HyphenFields(b) == Fields(b, "-", "-", <<>>)

SlashFields(b) == Fields(b, "/", "/", <<>>)

\* Whether the digit group g denotes the number v >= 0.
RECURSIVE Denotes(_, _)
Denotes(g, v) ==
    IF g = <<>> THEN v = 0
    ELSE /\ DigitVal(g[Len(g)]) = v % 10
         /\ Denotes(SubSeq(g, 1, Len(g) - 1), v \div 10)

\* The number the digit group g denotes, modulo 400.
RECURSIVE Mod400(_)
Mod400(g) ==
    IF g = <<>> THEN 0
    ELSE (10 * Mod400(SubSeq(g, 1, Len(g) - 1)) + DigitVal(g[Len(g)])) % 400

\* The length of month m in a year that is r modulo 400.
MonthLength(m, r) ==
    CASE m \in {1, 3, 5, 7, 8, 10, 12} -> 31
      [] m \in {4, 6, 9, 11} -> 30
      [] m = 2 -> IF r % 4 = 0 /\ (r % 100 # 0 \/ r = 0) THEN 29 ELSE 28

\* Whether month group mm and day group dd denote a day that exists in a
\* Gregorian year that is r modulo 400.
ExistingDate(r, mm, dd) ==
    \E m \in 1..12 : /\ Denotes(mm, m)
                     /\ \E d \in 1..MonthLength(m, r) : Denotes(dd, d)

\* The era table of the specification.
EraStart(e) ==
    CASE e = Reiwa -> 2019 [] e = Heisei -> 1989 [] e = Showa -> 1926
      [] e = Taisho -> 1912 [] e = Meiji -> 1868

KnownEras == {Reiwa, Heisei, Showa, Taisho, Meiji}

\* The Gregorian year of era year Y of era e, modulo 400.
EraYearMod400(e, yy) == (EraStart(e) + Mod400(yy) + 399) % 400

\* Whether era year Y of era e is a Gregorian year of at most four digits.
AtMost9999(e, yy) ==
    LET sig == StripZeros([i \in 1..Len(yy) |-> DigitVal(yy[i])])
    IN  Len(sig) <= 4 /\ EraStart(e) + DigitsToInt(sig) - 1 <= 9999

\* C5: for every string <era><Y>NEN<M>GATSU<D>NICHI with a known era and
\* non-empty digit groups, ValidateDate returns true exactly when
\* (start(era) + Y - 1, M, D) is an existing Gregorian date.
C5_EraDateExists ==
    called = "ValidateDate" =>
        \A e \in KnownEras : HasPrefix(input, e) =>
            \A f \in KanjiFields(Drop(input, 2)) :
                returned <=> ExistingDate(EraYearMod400(e, f[1]), f[2], f[3])

\* C5, as far as it holds: the same for the era years whose Gregorian year
\* has at most four digits.
C5_EraDateExistsUpTo9999 ==
    called = "ValidateDate" =>
        \A e \in KnownEras : HasPrefix(input, e) =>
            \A f \in KanjiFields(Drop(input, 2)) : AtMost9999(e, f[1]) =>
                (returned <=> ExistingDate(EraYearMod400(e, f[1]), f[2], f[3]))

\* The ways to read t as M GATSU D NICHI with non-empty digit groups.
MonthDayFields(t) == KanjiFields(<<"1", "NEN">> \o t)

\* C6: for every known era E and all digit groups M and D, ValidateDate of
\* E GAN NEN M GATSU D NICHI equals ValidateDate of E 1 NEN M GATSU D NICHI.
C6_Gannen ==
    called = "ValidateDate" =>
        \A e \in KnownEras :
            (HasPrefix(input, e \o <<"GAN", "NEN">>) /\ MonthDayFields(Drop(input, 4)) # {})
                => returned = ValidateDate(e \o <<"1", "NEN">> \o Drop(input, 4))

\* A first-year date that was accepted.
C6_Witness ==
    /\ called = "ValidateDate"
    /\ \E e \in KnownEras :
           HasPrefix(input, e \o <<"GAN", "NEN">>) /\ MonthDayFields(Drop(input, 4)) # {}
    /\ returned

\* The three forms of C7, read off the trimmed input: the kanji form with a
\* year of four digits, YYYY-M-D and YYYY-MM-DD.
PlainKanjiFields(t) == {f \in KanjiFields(t) : Len(f[1]) = 4}

PlainHyphenFields(t) ==
    {f \in HyphenFields(t) :
        /\ Len(f[1]) = 4
        /\ (Len(f[2]) = 1 /\ Len(f[3]) = 1) \/ (Len(f[2]) = 2 /\ Len(f[3]) = 2)}

\* C7 as claimed: for every string that, trimmed, has the form
\* <4 digits>NEN<digits>GATSU<digits>NICHI, YYYY-M-D or YYYY-MM-DD,
\* ValidateDate returns true exactly when year, month and day denote an
\* existing Gregorian date; a string with slashes is false.
C7_PlainDateExists ==
    called = "ValidateDate" =>
        /\ \A f \in PlainKanjiFields(TrimSpace(input)) \cup PlainHyphenFields(TrimSpace(input)) :
               returned <=> ExistingDate(Mod400(f[1]), f[2], f[3])
        /\ SlashFields(TrimSpace(input)) # {} => ~returned

\* C7 amended: the same, with the month and day groups of the kanji form of
\* one or two digits each.
C7_PlainDateExistsTwoDigits ==
    called = "ValidateDate" =>
        /\ \A f \in {g \in PlainKanjiFields(TrimSpace(input)) : Len(g[2]) <= 2 /\ Len(g[3]) <= 2}
                    \cup PlainHyphenFields(TrimSpace(input)) :
               returned <=> ExistingDate(Mod400(f[1]), f[2], f[3])
        /\ SlashFields(TrimSpace(input)) # {} => ~returned

\* 29 February of a leap year in the kanji form, between blanks, accepted.
C7_Witness ==
    /\ called = "ValidateDate"
    /\ input # TrimSpace(input)
    /\ PlainKanjiFields(TrimSpace(input)) # {}
    /\ returned

ContainsEra(s) == \E e \in KnownEras : Contains(s, e)

Markers == {"NEN", "GATSU", "NICHI"}

\* C8: ValidateDate returns false for every input without an era that uses
\* at least one of the markers NEN, GATSU, NICHI and lacks one of them.
C8_MarkersRequired ==
    ( /\ called = "ValidateDate"
      /\ ~ContainsEra(input)
      /\ \E k \in Markers : Contains(input, <<k>>)
      /\ \E k \in Markers : ~Contains(input, <<k>>) ) => ~returned

\* C8 for the package without era support, whose ValidateDate tests for the
\* three markers first.
C8_MarkersRequiredNoEra ==
    ( /\ called = "ValidateDateNoEra"
      /\ \E k \in Markers : ~Contains(input, <<k>>) ) => ~returned

\* Whether s, as a whole, is <era><digits>NEN<digits>GATSU<digits>NICHI.
EraForm(s) == \E e \in KnownEras : HasPrefix(s, e) /\ KanjiFields(Drop(s, 2)) # {}

\* C9: an input that holds an era name is accepted only when the whole of
\* it, trimmed and with GAN NEN written 1 NEN, has the form
\* <era><digits>NEN<digits>GATSU<digits>NICHI.
C9_WholeStringMatch ==
    (called = "ValidateDate" /\ ContainsEra(input) /\ returned) =>
        EraForm(Replace(TrimSpace(input), <<"GAN", "NEN">>, <<"1", "NEN">>, 1))

\* The characters an era name is written with.
NameKanji == Kanji \ {"NEN", "GATSU", "NICHI", "GAN"}

\* The longest run of name characters s begins with.
RECURSIVE NameRun(_)
NameRun(s) ==
    IF s # <<>> /\ Head(s) \in NameKanji THEN <<Head(s)>> \o NameRun(Tail(s)) ELSE <<>>

\* Whether s is <name><digits>NEN<digits>GATSU<digits>NICHI with a name
\* that is none of the five eras.
UnknownEraForm(s) ==
    /\ NameRun(s) # <<>>
    /\ NameRun(s) \notin KnownEras
    /\ KanjiFields(Drop(s, Len(NameRun(s)))) # {}

\* C10: ValidateDate returns false for the empty string and for every
\* era-shaped string whose era name is not one of the five known eras.
C10_UnknownEraRejected ==
    called = "ValidateDate" =>
        /\ returned \in BOOLEAN
        /\ input = <<>> => ~returned
        /\ UnknownEraForm(input) => ~returned

---------------------------------------------------------------------------
(* Images (package kensho, preprocessing.go)                               *)
(*                                                                         *)
(* An image is the picture that was decoded together with the library      *)
(* operations applied to it since, in order.  Decimal parameters are in    *)
(* tenths: an angle of 2 is 0.2 degrees, a contrast factor of 15 is 1.5.   *)
(* The float64 candidates of the angle scan differ from -10.0, -9.8, ...   *)
(* by less than 1e-14, which changes none of the comparisons made.         *)
(* The only pixels read are those of the edge image rotated by a candidate *)
(* angle; the picture carries them: height rows of one red value each,     *)
(* all zero except at the angles listed in peaks, a set of                 *)
(* <<angle, rows>>.                                                        *)

Op(name, args) == [op |-> name, args |-> args]

\* effect.Grayscale, effect.Sobel, adjust.Contrast, effect.UnsharpMask and
\* effect.Median: a new image of the same picture and bounds.
Grayscale(img) == [img EXCEPT !.ops = Append(@, Op("Grayscale", <<>>))]

Sobel(img) == [img EXCEPT !.ops = Append(@, Op("Sobel", <<>>))]

Contrast(img, factor) == [img EXCEPT !.ops = Append(@, Op("Contrast", <<factor>>))]

UnsharpMask(img, radius, amount) ==
    [img EXCEPT !.ops = Append(@, Op("UnsharpMask", <<radius, amount>>))]

Median(img, radius) == [img EXCEPT !.ops = Append(@, Op("Median", <<radius>>))]

\* transform.Rotate about the centre; resize is ResizeBounds, false when the
\* options are nil.
Rotate(img, angle, resize) ==
    [img EXCEPT !.ops = Append(@, Op("Rotate", <<angle, IF resize THEN 1 ELSE 0>>))]

\* sharpen leaving the image as it is.
sharpenSkipped(img) == img

\* sharpen applies an unsharp mask of radius 1.0 and amount 1.2.
sharpen(img) == UnsharpMask(img, 10, 12)

adjustContrast(img, factor) == Contrast(img, factor)

\* removeNoise applies a median filter of radius 1.0.
removeNoise(img) == Median(img, 10)

\* height rows of one black pixel.
Blank(height) == [y \in 1..height |-> <<0>>]

\* The red values, row by row, of an edge image that was rotated last.
RedRows(img) ==
    LET angle == img.ops[Len(img.ops)].args[1]
        hit   == {p \in img.peaks : p[1] = angle}
    IN  IF hit = {} THEN Blank(img.height) ELSE (CHOOSE p \in hit : TRUE)[2]

RECURSIVE SumSeq(_)
SumSeq(s) == IF s = <<>> THEN 0 ELSE Head(s) + SumSeq(Tail(s))

\* A float64 score: NaN, or the fraction num / den with den > 0.
NaN == [nan |-> TRUE, num |-> 0, den |-> 1]

Float(num, den) == [nan |-> FALSE, num |-> num, den |-> den]

\* a >= b on float64.
GreaterOrEqual(a, b) == ~a.nan /\ ~b.nan /\ a.num * b.den >= b.num * a.den

\* a > b on float64: false when either side is NaN.
Greater(a, b) == ~a.nan /\ ~b.nan /\ a.num * b.den > b.num * a.den

\* calculateProjectionScore: the variance of the row sums.  With the mean
\* total / height, the sum of (p - mean)^2 over the rows, divided by height,
\* is (height * squares - total^2) / height^2; with no rows the mean is
\* 0 / 0, and the score NaN.
calculateProjectionScore(img) ==
    LET rows       == RedRows(img)
        height     == Len(rows)
        projection == [y \in 1..height |-> SumSeq(rows[y])]
        total      == SumSeq(projection)
        squares    == SumSeq([y \in 1..height |-> projection[y] * projection[y]])
    IN  IF height = 0
        THEN NaN
        ELSE Float(height * squares - total * total, height * height)

\* Max angle to check, 10.0 degrees.
maxAngle == 100

\* Step of the angle search, 0.2 degrees.
angleStep == 2

\* One pass of the loop body, for the candidate angle: the best score and
\* angle after it.
Try(edges, angle, best) ==
    LET rotated == Rotate(edges, angle, FALSE)
        score   == calculateProjectionScore(rotated)
    IN  IF Greater(score, best.maxScore)
        THEN [maxScore |-> score, bestAngle |-> angle]
        ELSE best

\* The passes of the loop for the candidates number lo to hi, in ascending
\* order; candidate number k is -maxAngle after k additions of angleStep.
\* The range is halved, and the first half evaluated before the second is
\* entered (the test of left is always true), to keep the evaluation
\* shallow.
RECURSIVE Scan(_, _, _, _)
Scan(edges, lo, hi, best) ==
    IF lo = hi
    THEN Try(edges, lo * angleStep - maxAngle, best)
    ELSE LET mid  == (lo + hi) \div 2
             left == Scan(edges, lo, mid, best)
         IN  IF left.bestAngle <= maxAngle THEN Scan(edges, mid + 1, hi, left) ELSE left

\* findBestSkewAngle with maxScore starting at 0.
findBestSkewAngleFromZero(grayImg) ==
    Scan(Sobel(grayImg), 0, (2 * maxAngle) \div angleStep,
         [maxScore |-> Float(0, 1), bestAngle |-> 0]).bestAngle

\* bestAngle starts as the zero value and maxScore as -1.0; the last
\* candidate not above maxAngle is number 100.
findBestSkewAngle(grayImg) ==
    Scan(Sobel(grayImg), 0, (2 * maxAngle) \div angleStep,
         [maxScore |-> Float(-1, 1), bestAngle |-> 0]).bestAngle

Abs(x) == IF x < 0 THEN -x ELSE x

\* deskew rotating the grayscale image.
deskewGray(img) ==
    LET gray  == Grayscale(img)
        angle == findBestSkewAngle(gray)
    IN  IF Abs(angle) < 1 THEN img ELSE Rotate(gray, angle, FALSE)

\* deskew rotates the image by the best angle unless that is under 0.1.
deskew(img) ==
    LET gray  == Grayscale(img)
        angle == findBestSkewAngle(gray)
    IN  IF Abs(angle) < 1 THEN img ELSE Rotate(img, angle, FALSE)

---------------------------------------------------------------------------
(* Encoded images and PreprocessImage *)

\* The image of bytes that hold none.
NoImage == [pix |-> "none", height |-> 0, peaks |-> {}, ops |-> <<>>]

\* A []byte is what it encodes: the container format, whether the stream is
\* damaged, the JPEG quality (0 for other formats) and the image.
Encoded(format, corrupt, quality, img) ==
    [format |-> format, corrupt |-> corrupt, quality |-> quality, img |-> img]

\* A nil []byte.
NilBytes == Encoded("nil", FALSE, 0, NoImage)

MimeJPEG == <<"i", "m", "a", "g", "e", "/", "j", "p", "e", "g">>

MimePNG == <<"i", "m", "a", "g", "e", "/", "p", "n", "g">>

MimeWEBP == <<"i", "m", "a", "g", "e", "/", "w", "e", "b", "p">>

\* jpeg.Decode, png.Decode and webp.Decode: an error unless the bytes are an
\* undamaged stream of the decoder's format.
Decode(format, imgData) ==
    IF imgData.format = format /\ ~imgData.corrupt
    THEN [err |-> FALSE, img |-> imgData.img]
    ELSE [err |-> TRUE, img |-> NoImage]

\* The formats registered with package image by the imports of the file.
RegisteredFormats == {"jpeg", "png", "webp"}

\* image.Decode: the decoder of the registered format the bytes start as.
ImageDecode(imgData) ==
    IF imgData.format \in RegisteredFormats
    THEN Decode(imgData.format, imgData)
    ELSE [err |-> TRUE, img |-> NoImage]

\* The decoder named by the first switch on mimeType.
decoderOf(mimeType) ==
    IF mimeType = MimeJPEG THEN "jpeg.Decode"
    ELSE IF mimeType = MimePNG THEN "png.Decode"
    ELSE IF mimeType = MimeWEBP THEN "webp.Decode"
    ELSE "image.Decode"

\* Decoding with image.Decode whatever the declared type.
decodeAny(imgData, mimeType) == ImageDecode(imgData)

\* The first switch on mimeType.
decode(imgData, mimeType) ==
    IF mimeType = MimeJPEG THEN Decode("jpeg", imgData)
    ELSE IF mimeType = MimePNG THEN Decode("png", imgData)
    ELSE IF mimeType = MimeWEBP THEN Decode("webp", imgData)
    ELSE ImageDecode(imgData)

\* Quality of the JPEG written.
Quality == 90

\* An encoder writing the format of the bytes that were decoded.
encodeAsDecoded(imgData, mimeType, img, fails) ==
    IF fails
    THEN [err |-> TRUE, buf |-> NilBytes]
    ELSE [err |-> FALSE,
          buf |-> IF imgData.format = "jpeg"
                  THEN Encoded("jpeg", FALSE, Quality, img)
                  ELSE Encoded("png", FALSE, 0, img)]

\* An encoder whose error is dropped.
encodeErrorDropped(imgData, mimeType, img, fails) ==
    [err |-> FALSE,
     buf |-> IF mimeType = MimeJPEG
             THEN Encoded("jpeg", FALSE, Quality, img)
             ELSE Encoded("png", FALSE, 0, img)]

\* The second switch on mimeType: jpeg.Encode with quality 90 for
\* image/jpeg, png.Encode for every other type.  fails tells whether the
\* encoder returns an error.
encode(imgData, mimeType, img, fails) ==
    IF fails
    THEN [err |-> TRUE, buf |-> NilBytes]
    ELSE [err |-> FALSE,
          buf |-> IF mimeType = MimeJPEG
                  THEN Encoded("jpeg", FALSE, Quality, img)
                  ELSE Encoded("png", FALSE, 0, img)]

\* The encoder named by the second switch on mimeType.
encoderOf(mimeType) == IF mimeType = MimeJPEG THEN "jpeg.Encode" ELSE "png.Encode"

\* What PreprocessImage returns, with the calls it made in order: the
\* decoder, the four steps and the encoder.  encodeFails tells whether the
\* encoder, when reached, returns an error.
PreprocessImage(imgData, mimeType, encodeFails) ==
    LET decoded == decode(imgData, mimeType)
        img1    == deskew(decoded.img)
        img2    == adjustContrast(img1, 15)
        img3    == sharpen(img2)
        img4    == removeNoise(img3)
        encoded == encode(imgData, mimeType, img4, encodeFails)
        steps   == <<decoderOf(mimeType), "deskew", "adjustContrast", "sharpen",
                     "removeNoise", encoderOf(mimeType)>>
    IN  IF decoded.err
        THEN [data |-> imgData, err |-> "nil", calls |-> <<decoderOf(mimeType)>>]
        ELSE IF encoded.err
        THEN [data |-> NilBytes, err |-> "encode", calls |-> steps]
        ELSE [data |-> encoded.buf, err |-> "nil", calls |-> steps]

\* preprocessContent: bytes declared as a PDF are left as they are.
preprocessContent(content, mimeType, encodeFails) ==
    IF Contains(mimeType, <<"p", "d", "f">>)
    THEN [data |-> content, err |-> "nil", calls |-> <<>>]
    ELSE PreprocessImage(content, mimeType, encodeFails)

---------------------------------------------------------------------------
(* Inputs of the skew search: pictures of up to MaxHeight rows whose       *)
(* rotated edge image is black at every candidate angle but one or two.    *)

\* The most rows a picture has.
MaxHeight == 2

\* The red values of a pixel of the edge image.
PixelValues == {0, 1, 2}

\* The angles the scan tries.
Candidates == {a \in -maxAngle..maxAngle : (a + maxAngle) % angleStep = 0}

\* The one-pixel-wide edge images of the height that are not black.
Lit(height) ==
    {[y \in 1..height |-> <<c[y]>>] : c \in [1..height -> PixelValues]} \ {Blank(height)}

\* Those lit in the first row only.
LitOnTop(height) == {m \in Lit(height) : \A y \in 2..height : m[y] = <<0>>}

\* The first two, the middle and the last two candidates.
SampleAngles ==
    {-maxAngle, angleStep - maxAngle, 0, maxAngle - angleStep, maxAngle}

\* No peak; one peak, lit on top at any candidate or lit anyhow at a sample
\* angle; or two peaks at sample angles, one of them lit on top.
Peaks(height) ==
    {{}}
    \cup {{<<a, m>>} : a \in Candidates, m \in LitOnTop(height)}
    \cup {{<<a, m>>} : a \in SampleAngles, m \in Lit(height)}
    \cup {{<<a[1], m[1]>>, <<a[2], m[2]>>} :
            a \in {b \in SampleAngles \X SampleAngles : b[1] # b[2]},
            m \in Lit(height) \X LitOnTop(height)}

Picture(height, peaks) ==
    [pix |-> "picture", height |-> height, peaks |-> peaks, ops |-> <<>>]

InitDeskew ==
    /\ input \in UNION {{Picture(h, p) : p \in Peaks(h)} : h \in 0..MaxHeight}
    /\ called = "none"
    /\ returned = FALSE

\* deskew's call of findBestSkewAngle, on the grayscale of the image.
CallFindBestSkewAngle ==
    /\ called = "none"
    /\ called' = "findBestSkewAngle"
    /\ returned' = findBestSkewAngle(Grayscale(input))
    /\ UNCHANGED input

CallDeskew ==
    /\ called = "none"
    /\ called' = "deskew"
    /\ returned' = deskew(input)
    /\ UNCHANGED input

NextDeskew == CallFindBestSkewAngle \/ CallDeskew

SpecDeskew == InitDeskew /\ [][NextDeskew]_vars

---------------------------------------------------------------------------
(* Inputs of PreprocessImage *)

\* Pictures that deskew rotates by -10 degrees (no peak), leaves alone (a
\* peak at 0) and rotates by 2 degrees.
SamplePeaks(height) ==
    LET top == [Blank(height) EXCEPT ![1] = <<1>>]
    IN  {{}, {<<0, top>>}, {<<20, top>>}}

SamplePictures ==
    UNION {{Picture(h, p) : p \in SamplePeaks(h)} : h \in 1..MaxHeight}

\* Streams of four container formats, whole or damaged, and a text.
ByteInputs ==
    {Encoded(f, c, IF f = "jpeg" THEN 75 ELSE 0, img) :
        f \in {"jpeg", "png", "webp", "gif"}, c \in BOOLEAN, img \in SamplePictures}
    \cup {Encoded("text", FALSE, 0, NoImage)}

MimeGIF == <<"i", "m", "a", "g", "e", "/", "g", "i", "f">>

MimePDF == <<"a", "p", "p", "l", "i", "c", "a", "t", "i", "o", "n", "/", "p", "d", "f">>

MimeText == <<"t", "e", "x", "t", "/", "p", "l", "a", "i", "n">>

MimeInputs == {MimeJPEG, MimePNG, MimeWEBP, MimeGIF, MimePDF, MimeText, <<>>}

InitPreprocess ==
    /\ input \in [imgData : ByteInputs, mimeType : MimeInputs, encodeFails : BOOLEAN]
    /\ called = "none"
    /\ returned = FALSE

CallPreprocessImage ==
    /\ called = "none"
    /\ called' = "PreprocessImage"
    /\ returned' = PreprocessImage(input.imgData, input.mimeType, input.encodeFails)
    /\ UNCHANGED input

CallPreprocessContent ==
    /\ called = "none"
    /\ called' = "preprocessContent"
    /\ returned' = preprocessContent(input.imgData, input.mimeType, input.encodeFails)
    /\ UNCHANGED input

NextPreprocess == CallPreprocessImage \/ CallPreprocessContent

SpecPreprocess == InitPreprocess /\ [][NextPreprocess]_vars

---------------------------------------------------------------------------
(* Properties of PreprocessImage *)

\* Whether the decoder the declared type selects fails on the bytes: the
\* JPEG, PNG or WEBP decoder for those types, image.Decode for any other.
SelectedDecoderFails(imgData, mimeType) ==
    IF mimeType = MimeJPEG THEN Decode("jpeg", imgData).err
    ELSE IF mimeType = MimePNG THEN Decode("png", imgData).err
    ELSE IF mimeType = MimeWEBP THEN Decode("webp", imgData).err
    ELSE ImageDecode(imgData).err

DecodeFails == SelectedDecoderFails(input.imgData, input.mimeType)

\* C11: when the selected decoder fails, PreprocessImage returns exactly the
\* input bytes and a nil error, and calls nothing after the decoder.
C11_DecodeFailurePassthrough ==
    (called = "PreprocessImage" /\ DecodeFails) =>
        /\ returned.data = input.imgData
        /\ returned.err = "nil"
        /\ Len(returned.calls) = 1

\* An undamaged JPEG declared as image/png comes back as it was.
C11_Witness ==
    /\ called = "PreprocessImage"
    /\ input.mimeType = MimePNG
    /\ input.imgData.format = "jpeg"
    /\ ~input.imgData.corrupt
    /\ returned.data = input.imgData
    /\ returned.err = "nil"

\* The operations the enhancement adds after deskew.
Enhancement == <<Op("Contrast", <<15>>), Op("UnsharpMask", <<10, 12>>), Op("Median", <<10>>)>>

\* The operations deskew adds: none, or one rotation of the image.
IsDeskewOps(ops) ==
    \/ ops = <<>>
    \/ Len(ops) = 1 /\ ops[1].op = "Rotate"

\* The decoder and the encoder the claims name for a declared type.
Decoders == {"jpeg.Decode", "png.Decode", "webp.Decode", "image.Decode"}

Encoders == {"jpeg.Encode", "png.Encode"}

\* C12: after a successful decode the calls are the decoder, deskew,
\* contrast, sharpen, denoise and the encoder, once each in that order, and
\* the image written is the decoded picture after deskew, contrast 1.5,
\* unsharp mask and median filter, the median filter last.
C12_FixedOrder ==
    (called = "PreprocessImage" /\ ~DecodeFails) =>
        /\ Len(returned.calls) = 6
        /\ returned.calls[1] \in Decoders
        /\ SubSeq(returned.calls, 2, 5) = <<"deskew", "adjustContrast", "sharpen", "removeNoise">>
        /\ returned.calls[6] \in Encoders
        /\ returned.err = "nil" =>
              LET ops == returned.data.img.ops
                  n   == Len(ops)
              IN  /\ returned.data.img.pix = input.imgData.img.pix
                  /\ n >= 3
                  /\ SubSeq(ops, n - 2, n) = Enhancement
                  /\ IsDeskewOps(SubSeq(ops, 1, n - 3))

\* A picture that was rotated and then enhanced.
C12_Witness ==
    /\ called = "PreprocessImage"
    /\ ~DecodeFails
    /\ returned.err = "nil"
    /\ Len(returned.data.img.ops) = 4
    /\ returned.data.img.ops[4] = Op("Median", <<10>>)

\* C13: after a successful decode the bytes written are a JPEG of quality
\* 90 when the declared type is image/jpeg and a PNG for every other
\* declared type, whatever the format of the input bytes.
C13_OutputFormat ==
    (called = "PreprocessImage" /\ ~DecodeFails /\ returned.err = "nil") =>
        IF input.mimeType = MimeJPEG
        THEN returned.data.format = "jpeg" /\ returned.data.quality = 90
        ELSE returned.data.format = "png"

\* A WEBP, and a JPEG declared as image/gif, written as PNG.
C13_Witness ==
    /\ called = "PreprocessImage"
    /\ returned.err = "nil"
    /\ returned.data.format = "png"
    /\ \/ input.mimeType = MimeWEBP /\ input.imgData.format = "webp"
       \/ input.mimeType = MimeGIF /\ input.imgData.format = "jpeg"
    /\ ~input.imgData.corrupt

\* C16: PreprocessImage returns an error, and nil bytes, exactly when the
\* decode succeeded and the encoder failed.
C16_ErrorOnlyFromEncode ==
    called = "PreprocessImage" =>
        /\ returned.err # "nil" <=> (~DecodeFails /\ input.encodeFails)
        /\ returned.err # "nil" => returned.data = NilBytes
        /\ returned.err = "nil" => returned.data # NilBytes

\* The encoder failed after a successful decode.
C16_Witness ==
    /\ called = "PreprocessImage"
    /\ ~DecodeFails
    /\ input.encodeFails
    /\ returned.err = "encode"
    /\ returned.data = NilBytes

---------------------------------------------------------------------------
(* Properties of the skew search *)

\* The score of the candidate angle for the image handed to deskew.
ScoreAt(img, angle) ==
    calculateProjectionScore(Rotate(Sobel(Grayscale(img)), angle, FALSE))

\* The order of the scores that are numbers.
Below(a, b) == ~a.nan /\ ~b.nan /\ a.num * b.den < b.num * a.den

AtMost(a, b) == ~a.nan /\ ~b.nan /\ a.num * b.den <= b.num * a.den

\* Whether angle is the smallest candidate whose score equals the maximum
\* of the scores: no candidate scores more, and every lower one scores less.
SmallestBest(scores, angle) ==
    /\ angle \in Candidates
    /\ \A b \in Candidates : AtMost(scores[b], scores[angle])
    /\ \A b \in Candidates : b < angle => Below(scores[b], scores[angle])

\* C14: deskew returns the image it was given when the best angle is under
\* 0.1 degrees in absolute value, and otherwise that image, not its
\* grayscale, rotated about its centre by the best angle with the bounds
\* kept.
C14_RotateFromThreshold ==
    called = "deskew" =>
        LET angle == findBestSkewAngle(Grayscale(input))
        IN  IF Abs(angle) >= 1
            THEN returned = [input EXCEPT !.ops = <<Op("Rotate", <<angle, 0>>)>>]
            ELSE returned = input

\* A picture whose best angle is 0.2 degrees, rotated by it.
C14_Witness ==
    /\ called = "deskew"
    /\ findBestSkewAngle(Grayscale(input)) = angleStep
    /\ returned # input
    /\ returned.ops = <<Op("Rotate", <<angleStep, 0>>)>>

---------------------------------------------------------------------------
(* Client.Extract (package kensho)                                         *)
(*                                                                         *)
(* The text the generative model returns is held as the JSON document it   *)
(* spells, with a mark for a Markdown fence around it: a document is an    *)
(* object of members by key, or an array, null, or no JSON at all.  A      *)
(* member is an object with the attributes a Field or a ForgeryWarning is  *)
(* decoded from, or a bare string, number or null.                         *)

\* A JSON value of an attribute: t is "string", "number", "bool", "null", or
\* "absent" when the attribute is not there.
Scalar(t, s, n, b) == [t |-> t, s |-> s, n |-> n, b |-> b]

Str(s) == Scalar("string", s, 0, FALSE)

Num(n) == Scalar("number", <<>>, n, FALSE)

Bool(b) == Scalar("bool", <<>>, 0, b)

Null == Scalar("null", <<>>, 0, FALSE)

Absent == Scalar("absent", <<>>, 0, FALSE)

\* A member of the top-level object: kind is "object", "string", "number"
\* or "null"; the attributes are Absent unless the kind is "object".
Member(kind, value, score, validation, signs, reason) ==
    [kind |-> kind, value |-> value, confidence_score |-> score,
     validation |-> validation, has_signs_of_forgery |-> signs, reason |-> reason]

\* {"value": ..., "confidence_score": ...}
FieldMember(value, score) == Member("object", value, score, Absent, Absent, Absent)

\* A map with no key.
EmptyMap == [k \in {} |-> Absent]

\* The Go values a Field.Value holds: a string, a float64, a bool or nil.
GoValue(t, s, n, b) == [t |-> t, s |-> s, n |-> n, b |-> b]

Nil == GoValue("nil", <<>>, 0, FALSE)

\* json.Unmarshal into an interface{}.
DecodeValue(v) ==
    IF v.t = "string" THEN GoValue("string", v.s, 0, FALSE)
    ELSE IF v.t = "number" THEN GoValue("float64", <<>>, v.n, FALSE)
    ELSE IF v.t = "bool" THEN GoValue("bool", <<>>, 0, v.b)
    ELSE Nil

Field(Value, ConfidenceScore, Validation) ==
    [Value |-> Value, ConfidenceScore |-> ConfidenceScore, Validation |-> Validation]

\* Whether json.Unmarshal into a Field reports a type error for the member:
\* a member that is no object (null leaves the Field as it is), a
\* confidence_score that is no number, a validation that is no string.
FieldTypeError(m) ==
    \/ m.kind \in {"string", "number"}
    \/ m.confidence_score.t \in {"string", "bool"}
    \/ m.validation.t \in {"number", "bool"}

\* json.Unmarshal of a member into a Field: confidence scores are in
\* hundredths.
DecodeField(m) ==
    Field(DecodeValue(m.value),
          IF m.confidence_score.t = "number" THEN m.confidence_score.n ELSE 0,
          IF m.validation.t = "string" THEN m.validation.s ELSE <<>>)

\* sanitizeJSONResponse: the text from the first brace or bracket to the
\* last, which is the document without its fence; a text without brace or
\* bracket loses the backticks around it, and what is left of a fence, the
\* word json before the document, is no JSON.
sanitizeJSONResponse(s) ==
    IF s.doc.kind \in {"object", "array"} \/ ~s.fence
    THEN [s EXCEPT !.fence = FALSE]
    ELSE [fence |-> FALSE, doc |-> [kind |-> "text", members |-> EmptyMap]]

\* json.Unmarshal of the text into a map[string]Field.
UnmarshalFields(text) ==
    IF text.fence \/ text.doc.kind \in {"array", "text"}
    THEN [err |-> TRUE, data |-> EmptyMap]
    ELSE IF text.doc.kind = "null"
    THEN [err |-> FALSE, data |-> EmptyMap]
    ELSE [err  |-> \E k \in DOMAIN text.doc.members : FieldTypeError(text.doc.members[k]),
          data |-> [k \in DOMAIN text.doc.members |-> DecodeField(text.doc.members[k])]]

\* json.Unmarshal of the text into a map[string]json.RawMessage.
UnmarshalRaw(text) ==
    IF text.fence \/ text.doc.kind \in {"array", "text"}
    THEN [err |-> TRUE, rawData |-> EmptyMap]
    ELSE IF text.doc.kind = "null"
    THEN [err |-> FALSE, rawData |-> EmptyMap]
    ELSE [err |-> FALSE, rawData |-> text.doc.members]

ForgeryWarning(isNil, HasSignsOfForgery, Reason) ==
    [isNil |-> isNil, HasSignsOfForgery |-> HasSignsOfForgery, Reason |-> Reason]

NoForgeryWarning == ForgeryWarning(TRUE, FALSE, <<>>)

\* json.Unmarshal of a raw member into the nil *ForgeryWarning: null leaves
\* the pointer nil; anything else allocates the struct and fills the
\* attributes of the right type, reporting an error for the others.
UnmarshalForgeryWarning(m) ==
    IF m.kind = "null"
    THEN [err |-> FALSE, forgeryWarning |-> NoForgeryWarning]
    ELSE [err |-> \/ m.kind # "object"
                  \/ m.has_signs_of_forgery.t \in {"string", "number"}
                  \/ m.reason.t \in {"number", "bool"},
          forgeryWarning |->
              ForgeryWarning(FALSE,
                             m.has_signs_of_forgery.t = "bool" /\ m.has_signs_of_forgery.b,
                             IF m.reason.t = "string" THEN m.reason.s ELSE <<>>)]

KeyCardNumber == <<"c", "a", "r", "d", "_", "n", "u", "m", "b", "e", "r">>

KeyForgeryWarning == <<"f", "o", "r", "g", "e", "r", "y", "_", "w", "a", "r", "n", "i", "n", "g">>

Valid == <<"v", "a", "l", "i", "d">>

Invalid == <<"i", "n", "v", "a", "l", "i", "d">>

\* The validator of the switch on docType picked for the key, "" when the
\* field is not validated.
validatorOfSwapped(docType, key) ==
    IF docType = "driver_license"
    THEN IF key = KeyCardNumber THEN "ValidateMyNumber"
         ELSE IF Contains(key, <<"d", "a", "t", "e">>) THEN "ValidateDate" ELSE ""
    ELSE IF docType = "individual_number_card"
    THEN IF key = KeyCardNumber THEN "ValidateDriverLicenseNumber"
         ELSE IF Contains(key, <<"d", "a", "t", "e">>) THEN "ValidateDate" ELSE ""
    ELSE ""

\* The switch with dates tested on keys that begin with "date".
validatorOfDatePrefix(docType, key) ==
    IF docType = "driver_license"
    THEN IF key = KeyCardNumber THEN "ValidateDriverLicenseNumber"
         ELSE IF HasPrefix(key, <<"d", "a", "t", "e">>) THEN "ValidateDate" ELSE ""
    ELSE IF docType = "individual_number_card"
    THEN IF key = KeyCardNumber THEN "ValidateMyNumber"
         ELSE IF HasPrefix(key, <<"d", "a", "t", "e">>) THEN "ValidateDate" ELSE ""
    ELSE ""

validatorOf(docType, key) ==
    IF docType = "driver_license"
    THEN IF key = KeyCardNumber THEN "ValidateDriverLicenseNumber"
         ELSE IF Contains(key, <<"d", "a", "t", "e">>) THEN "ValidateDate" ELSE ""
    ELSE IF docType = "individual_number_card"
    THEN IF key = KeyCardNumber THEN "ValidateMyNumber"
         ELSE IF Contains(key, <<"d", "a", "t", "e">>) THEN "ValidateDate" ELSE ""
    ELSE ""

\* One pass of the validation loop: the field stored under the key.
validateField(docType, key, field) ==
    IF field.Value.t # "string" \/ validatorOf(docType, key) = ""
    THEN field
    ELSE IF validatorOf(docType, key) = "ValidateDriverLicenseNumber"
    THEN [field EXCEPT !.Validation =
            IF ValidateDriverLicenseNumber(field.Value.s) THEN Valid ELSE Invalid]
    ELSE IF validatorOf(docType, key) = "ValidateMyNumber"
    THEN [field EXCEPT !.Validation =
            IF ValidateMyNumber(field.Value.s) THEN Valid ELSE Invalid]
    ELSE [field EXCEPT !.Validation =
            IF ValidateDate(field.Value.s) THEN Valid ELSE Invalid]

\* s[len(s)-n:], the last n bytes of s: a kanji the slice cuts leaves its
\* last bytes.
RECURSIVE LastBytes(_, _)
LastBytes(s, n) ==
    IF n = 0 \/ s = <<>>
    THEN <<>>
    ELSE LET c == s[Len(s)]
             w == IF c \in Kanji THEN 3 ELSE 1
         IN  IF w <= n
             THEN LastBytes(SubSeq(s, 1, Len(s) - 1), n - w) \o <<c>>
             ELSE [i \in 1..n |-> HighByte]

Stars == [i \in 1..12 |-> "*"]

\* maskString: len(s) counts bytes.
maskString(s) ==
    IF Len(Bytes(s)) <= 4 THEN s ELSE Stars \o LastBytes(s, 4)

\* strings.Index, counted from 1, and 0 when sub is not in s.
Index(s, sub) ==
    IF Contains(s, sub)
    THEN CHOOSE i \in 1..Len(s) :
            /\ HasPrefix(Drop(s, i - 1), sub)
            /\ \A j \in 1..(i - 1) : ~HasPrefix(Drop(s, j - 1), sub)
    ELSE 0

\* strings.LastIndex, counted from 1.
LastIndex(s, sub) ==
    IF Contains(s, sub)
    THEN CHOOSE i \in 1..Len(s) :
            /\ HasPrefix(Drop(s, i - 1), sub)
            /\ \A j \in (i + 1)..Len(s) : ~HasPrefix(Drop(s, j - 1), sub)
    ELSE 0

\* strings.Count of the non-overlapping occurrences of a non-empty sub.
RECURSIVE Count(_, _)
Count(s, sub) ==
    IF s = <<>> THEN 0
    ELSE IF HasPrefix(s, sub) THEN 1 + Count(Drop(s, Len(sub)), sub)
    ELSE Count(Tail(s), sub)

ImagePrefix == <<"i", "m", "a", "g", "e", "/">>

cleanMimeType(mimeType) ==
    LET trimmed == TrimSpace(mimeType)
        idx     == Index(trimmed, <<";">>)
        cut     == IF idx # 0 THEN TrimSpace(SubSeq(trimmed, 1, idx - 1)) ELSE trimmed
    IN  IF Count(cut, ImagePrefix) > 1
        THEN Drop(cut, LastIndex(cut, ImagePrefix) - 1)
        ELSE cut

supportedMimeTypes == {MimeJPEG, MimePNG, MimeWEBP, MimePDF}

MimeZip == <<"a", "p", "p", "l", "i", "c", "a", "t", "i", "o", "n", "/", "z", "i", "p">>

MimeOctetStream == <<"a", "p", "p", "l", "i", "c", "a", "t", "i", "o", "n", "/", "o", "c", "t", "e", "t", "-", "s", "t", "r", "e", "a", "m">>

MimeTextUTF8 == <<"t", "e", "x", "t", "/", "p", "l", "a", "i", "n", ";", " ", "c", "h", "a", "r", "s", "e", "t", "=", "u", "t", "f", "-", "8">>

\* http.DetectContentType: the type of the signature the bytes begin with.
DetectContentType(content) ==
    IF content.format = "jpeg" THEN MimeJPEG
    ELSE IF content.format = "png" THEN MimePNG
    ELSE IF content.format = "webp" THEN MimeWEBP
    ELSE IF content.format = "gif" THEN MimeGIF
    ELSE IF content.format = "pdf" THEN MimePDF
    ELSE IF content.format = "zip" THEN MimeZip
    ELSE IF content.format = "text" THEN MimeTextUTF8
    ELSE MimeOctetStream

\* The parts of a prompt.
Text(text) == [kind |-> "Text", text |-> text, MIMEType |-> <<>>, Data |-> NilBytes]

Blob(MIMEType, Data) == [kind |-> "Blob", text |-> "", MIMEType |-> MIMEType, Data |-> Data]

\* The content sent being what preprocessing returned, error or not.
processedContentUnchecked(content, processed) == processed.data

\* The content sent for a part: the original when preprocessing failed.
processedContent(content, processed) ==
    IF processed.err # "nil" THEN content ELSE processed.data

\* The loop over doc.ImageParts from the part names left, with the prompt
\* built so far: a part that is not supplied is skipped, and a part of an
\* unsupported type ends the request.
RECURSIVE BuildPrompt(_, _, _, _)
BuildPrompt(names, fileParts, encodeFails, prompt) ==
    IF names = <<>>
    THEN [err |-> FALSE, prompt |-> prompt]
    ELSE IF Head(names) \notin DOMAIN fileParts
    THEN BuildPrompt(Tail(names), fileParts, encodeFails, prompt)
    ELSE LET part     == fileParts[Head(names)]
             cleaned  == cleanMimeType(part.MimeType)
             detected == DetectContentType(part.Content)
             mimeType == IF cleaned \in supportedMimeTypes THEN cleaned ELSE detected
         IN  IF cleaned \notin supportedMimeTypes /\ detected \notin supportedMimeTypes
             THEN [err |-> TRUE, prompt |-> prompt]
             ELSE BuildPrompt(Tail(names), fileParts, encodeFails,
                              prompt \o <<Text(Head(names)),
                                          Blob(mimeType,
                                               processedContent(part.Content,
                                                   preprocessContent(part.Content, mimeType,
                                                                     encodeFails)))>>)

\* The documents of the configuration: the image parts of each type.
Documents ==
    [t \in {"driver_license", "individual_number_card", "test_doc"} |->
        [Prompt |-> "prompt",
         ImageParts |-> IF t = "driver_license" THEN <<"front", "back">> ELSE <<"front">>]]

NoResult == [isNil |-> TRUE, ExtractedData |-> EmptyMap,
             ForgeryWarning |-> NoForgeryWarning,
             RawResponse |-> [fence |-> FALSE, doc |-> [kind |-> "text", members |-> EmptyMap]]]

\* A return of Extract without a result: the error, the prompt built and
\* the number of calls of the model.
Failure(err, prompt, calls) ==
    [result |-> NoResult, err |-> err, prompt |-> prompt, calls |-> calls]

\* The map without the key.
Delete(data, key) == [k \in DOMAIN data \ {key} |-> data[k]]

\* The validation loop over the decoded fields.
Validate(docType, data) ==
    [key \in DOMAIN data |-> validateField(docType, key, data[key])]

\* Extract after the validation loop: forgery warning, masking and result.
Finish(masking, cleaned, validated) ==
    LET raw    == UnmarshalRaw(cleaned)
        hasFw  == KeyForgeryWarning \in DOMAIN raw.rawData
        fw     == UnmarshalForgeryWarning(raw.rawData[KeyForgeryWarning])
        kept   == IF hasFw /\ ~fw.err THEN Delete(validated, KeyForgeryWarning) ELSE validated
        masked == IF /\ masking
                     /\ KeyCardNumber \in DOMAIN kept
                     /\ kept[KeyCardNumber].Value.t = "string"
                  THEN [kept EXCEPT ![KeyCardNumber].Value.s = maskString(@)]
                  ELSE kept
    IN  IF raw.err
        THEN Failure("unmarshal raw", <<>>, 1)
        ELSE [result |-> [isNil |-> FALSE, ExtractedData |-> masked,
                          ForgeryWarning |-> IF hasFw THEN fw.forgeryWarning ELSE NoForgeryWarning,
                          RawResponse |-> cleaned],
              err |-> "nil", prompt |-> <<>>, calls |-> 1]

\* Generate with the card number masked before the validation loop.
GenerateMaskFirst(docType, masking, generated, prompt) ==
    LET cleaned == sanitizeJSONResponse(generated.jsonText)
        data    == UnmarshalFields(cleaned).data
        masked  == IF /\ masking
                      /\ KeyCardNumber \in DOMAIN data
                      /\ data[KeyCardNumber].Value.t = "string"
                   THEN [data EXCEPT ![KeyCardNumber].Value.s = maskString(@)]
                   ELSE data
    IN  IF generated.kind # "text" \/ UnmarshalFields(cleaned).err
        THEN Failure("failed to generate content", prompt, 1)
        ELSE [Finish(FALSE, cleaned, Validate(docType, masked)) EXCEPT !.prompt = prompt]

\* Extract from the call of GenerateContent on, with the prompt built.
\* generated is what GenerateContent answers: an error, no candidate or
\* part, a part that is no text, or a text.
Generate(docType, masking, generated, prompt) ==
    IF generated.kind = "error"
    THEN Failure("failed to generate content", prompt, 1)
    ELSE IF generated.kind = "empty"
    THEN Failure("no content generated", prompt, 1)
    ELSE IF generated.kind = "blob"
    THEN Failure("unexpected response format", prompt, 1)
    ELSE IF UnmarshalFields(sanitizeJSONResponse(generated.jsonText)).err
    THEN Failure("failed to unmarshal JSON", prompt, 1)
    ELSE [Finish(masking, sanitizeJSONResponse(generated.jsonText),
                 Validate(docType, UnmarshalFields(sanitizeJSONResponse(generated.jsonText)).data))
            EXCEPT !.prompt = prompt]

\* Send calling the model whatever the loop over the image parts found.
SendAlways(docType, masking, generated, built) ==
    Generate(docType, masking, generated, built.prompt)

\* Extract from the loop over the image parts on.
Send(docType, masking, generated, built) ==
    IF built.err
    THEN Failure("ErrUnsupportedMimeType", built.prompt, 0)
    ELSE Generate(docType, masking, generated, built.prompt)

\* Extract.  encodeFails tells whether the encoder of the preprocessing
\* returns an error.
Extract(fileParts, docType, masking, generated, encodeFails) ==
    IF docType \notin DOMAIN Documents
    THEN Failure("ErrUnsupportedDocumentType", <<>>, 0)
    ELSE Send(docType, masking, generated,
              BuildPrompt(Documents[docType].ImageParts, fileParts, encodeFails,
                          <<Text(Documents[docType].Prompt)>>))

---------------------------------------------------------------------------
(* Inputs of Extract *)

KeyBirthDate == <<"b", "i", "r", "t", "h", "_", "d", "a", "t", "e">>

KeyCandidate == <<"c", "a", "n", "d", "i", "d", "a", "t", "e">>

KeyName == <<"n", "a", "m", "e">>

\* 123456789012, a valid licence number, and 123456789018, a valid My
\* Number.
LicenseNumber == Seed(1)

MyNumber == SetCheck(Seed(1), "8")

\* What the recogniser may return as a card number: the two numbers, the
\* licence number between DAI and GOU, the My Number with hyphens, strings
\* of 4 and 5 characters, and a JSON number.
CardValues ==
    {Str(LicenseNumber), Str(MyNumber),
     Str(<<"DAI">> \o LicenseNumber \o <<"GOU">>),
     Str(SubSeq(MyNumber, 1, 4) \o <<"-">> \o SubSeq(MyNumber, 5, 8) \o <<"-">>
         \o SubSeq(MyNumber, 9, 12)),
     Str(<<"9", "0", "1", "2">>), Str(<<"1", "2", "3", "4", "5">>), Num(12345)}

\* An existing date, 30 February, the first day of Reiwa, and a number.
DateValues ==
    {Str(<<"2", "0", "2", "3", "-", "0", "1", "-", "1", "5">>), Str(<<"2", "0", "2", "3", "-", "0", "2", "-", "3", "0">>),
     Str(<<"REI", "WA", "GAN", "NEN", "5", "GATSU", "1", "NICHI">>), Num(20230115)}

\* No member under the key.
NoMember == Member("absent", Absent, Absent, Absent, Absent, Absent)

\* A card number with a confidence score, and a JSON number that the
\* response marks as valid.
CardMembers ==
    {NoMember, Member("object", Num(12345), Num(99), Str(Valid), Absent, Absent)}
    \cup {FieldMember(v, Num(99)) : v \in CardValues}

DateMembers == {NoMember} \cup {FieldMember(v, Num(95)) : v \in DateValues}

CandidateMembers == {NoMember, FieldMember(Str(<<"T", "a", "r", "o">>), Num(80))}

\* A name, a name the response marks as valid, an age, and a bare string.
NameMembers ==
    {NoMember,
     FieldMember(Str(<<"J", "o", "h", "n", " ", "D", "o", "e">>), Num(90)),
     Member("object", Str(<<"J", "o", "h", "n", " ", "D", "o", "e">>), Num(90), Str(Valid), Absent, Absent),
     FieldMember(Num(30), Num(95)),
     Member("string", Absent, Absent, Absent, Absent, Absent)}

\* A warning, null, and a warning whose has_signs_of_forgery is a string.
ForgeryMembers ==
    {NoMember,
     Member("object", Absent, Absent, Absent, Bool(TRUE), Str(<<"f", "o", "n", "t", " ", "m", "i", "s", "m", "a", "t", "c", "h">>)),
     Member("null", Absent, Absent, Absent, Absent, Absent),
     Member("object", Absent, Absent, Absent, Str(<<"y", "e", "s">>), Str(<<"f", "o", "n", "t", " ", "m", "i", "s", "m", "a", "t", "c", "h">>))}

ResponseKeys == {KeyCardNumber, KeyBirthDate, KeyCandidate, KeyName, KeyForgeryWarning}

\* The object with the members chosen that are there.
Object(choice) ==
    [kind |-> "object",
     members |-> [k \in {key \in ResponseKeys : choice[key].kind # "absent"} |-> choice[k]]]

\* The members chosen for the five keys.
Choice(card, date, candidate, name, forgery) ==
    [k \in ResponseKeys |->
        IF k = KeyCardNumber THEN card
        ELSE IF k = KeyBirthDate THEN date
        ELSE IF k = KeyCandidate THEN candidate
        ELSE IF k = KeyName THEN name
        ELSE forgery]

ObjectDocs ==
    {Object(Choice(c, d, x, n, f)) :
        c \in CardMembers, d \in DateMembers, x \in CandidateMembers,
        n \in NameMembers, f \in ForgeryMembers}

NotJSON == [kind |-> "text", members |-> EmptyMap]

OtherDocs == {NotJSON, [kind |-> "array", members |-> EmptyMap],
              [kind |-> "null", members |-> EmptyMap]}

\* The response of the masking test, and one with a warning and a date.
SampleDocs ==
    {Object(Choice(FieldMember(Str(LicenseNumber), Num(99)), NoMember, NoMember,
                   NoMember, NoMember)),
     Object(Choice(NoMember, FieldMember(Str(<<"2", "0", "2", "3", "-", "0", "1", "-", "1", "5">>), Num(95)),
                   NoMember, NoMember,
                   Member("object", Absent, Absent, Absent, Bool(TRUE),
                          Str(<<"f", "o", "n", "t">>))))}

Generated(kind, fence, doc) == [kind |-> kind, jsonText |-> [fence |-> fence, doc |-> doc]]

\* What the model answers: a plain text of every document, a fenced text of
\* some, an error, no candidate, and a part that is no text.
GeneratedInputs ==
    {Generated("text", FALSE, d) : d \in ObjectDocs \cup OtherDocs}

GeneratedSamples ==
    {Generated("text", f, d) : f \in BOOLEAN, d \in SampleDocs \cup OtherDocs}
    \cup {Generated(k, FALSE, NotJSON) : k \in {"error", "empty", "blob"}}

FilePart(Content, MimeType) == [Content |-> Content, MimeType |-> MimeType]

SamplePicture == Picture(MaxHeight, {<<20, [Blank(MaxHeight) EXCEPT ![1] = <<1>>]>>})

\* The part of the tests: a text declared as image/png.
TestPart == FilePart(Encoded("text", FALSE, 0, NoImage), MimePNG)

PartInputs ==
    {TestPart,
     FilePart(Encoded("png", FALSE, 0, SamplePicture), MimePNG),
     FilePart(Encoded("jpeg", FALSE, 75, SamplePicture),
              <<" ">> \o MimeJPEG \o <<" ", ";", " ", "q", "=", "1">>),
     FilePart(Encoded("webp", FALSE, 0, SamplePicture), MimeWEBP),
     FilePart(Encoded("png", FALSE, 0, SamplePicture), MimeJPEG \o <<",">> \o MimePNG),
     FilePart(Encoded("png", FALSE, 0, SamplePicture), <<>>),
     FilePart(Encoded("pdf", FALSE, 0, NoImage), MimePDF),
     FilePart(Encoded("gif", FALSE, 0, SamplePicture), MimeGIF),
     FilePart(Encoded("zip", FALSE, 0, NoImage), MimeZip)}

\* No part, a front part, or a front and a back part.
FilePartInputs ==
    {EmptyMap}
    \cup {[n \in {"front"} |-> p] : p \in PartInputs}
    \cup {[n \in {"front", "back"} |-> IF n = "front" THEN TestPart ELSE p] : p \in PartInputs}

DocTypeInputs == {"driver_license", "individual_number_card", "test_doc", "unsupported_doc"}

ExtractInput(fileParts, docType, masking, generated, encodeFails) ==
    [fileParts |-> fileParts, docType |-> docType, masking |-> masking,
     generated |-> generated, encodeFails |-> encodeFails]

\* Every response with the part of the tests, and every part with the
\* sample responses.
ExtractInputs ==
    {ExtractInput([n \in {"front"} |-> TestPart], t, m, g, FALSE) :
        t \in DocTypeInputs, m \in BOOLEAN, g \in GeneratedInputs}
    \cup {ExtractInput(f, t, m, g, e) :
            f \in FilePartInputs, t \in DocTypeInputs, m \in BOOLEAN,
            g \in GeneratedSamples, e \in BOOLEAN}

InitExtract ==
    /\ input \in ExtractInputs
    /\ called = "none"
    /\ returned = FALSE

CallExtract ==
    /\ called = "none"
    /\ called' = "Extract"
    /\ returned' = Extract(input.fileParts, input.docType, input.masking,
                           input.generated, input.encodeFails)
    /\ UNCHANGED input

\* maskString on the card number of the response, as Extract calls it.
CallMaskString ==
    /\ called = "none"
    /\ input.generated.kind = "text"
    /\ input.generated.jsonText.doc.kind = "object"
    /\ KeyCardNumber \in DOMAIN input.generated.jsonText.doc.members
    /\ input.generated.jsonText.doc.members[KeyCardNumber].value.t = "string"
    /\ called' = "maskString"
    /\ returned' = maskString(input.generated.jsonText.doc.members[KeyCardNumber].value.s)
    /\ UNCHANGED input

NextExtract == CallExtract \/ CallMaskString

SpecExtract == InitExtract /\ [][NextExtract]_vars

---------------------------------------------------------------------------
(* Properties of Extract *)

\* The members of the response, when it is an object, and the fields of
\* the result.
Members == input.generated.jsonText.doc.members

Extracted == returned.result.ExtractedData

\* Extract returned a result.
Returned == called = "Extract" /\ returned.err = "nil"

\* The keys of the result whose response value is a string.
StringKeys == {k \in DOMAIN Extracted : Members[k].value.t = "string"}

Verdict(isValid) == IF isValid THEN Valid ELSE Invalid

\* C17: a string card_number gets the verdict of
\* ValidateDriverLicenseNumber for a driver_license and of ValidateMyNumber
\* for an individual_number_card.
C17_CardNumberByDocType ==
    (Returned /\ KeyCardNumber \in StringKeys) =>
        LET value == Members[KeyCardNumber].value.s
            field == Extracted[KeyCardNumber]
        IN  /\ input.docType = "driver_license" =>
                  field.Validation = Verdict(ValidateDriverLicenseNumber(value))
            /\ input.docType = "individual_number_card" =>
                  field.Validation = Verdict(ValidateMyNumber(value))

\* A valid licence number is invalid on an individual_number_card.
C17_Witness ==
    /\ Returned
    /\ input.docType = "individual_number_card"
    /\ KeyCardNumber \in StringKeys
    /\ ValidateDriverLicenseNumber(Members[KeyCardNumber].value.s)
    /\ Extracted[KeyCardNumber].Validation = Invalid

ValidatedTypes == {"driver_license", "individual_number_card"}

\* Whether the key contains "date".
IsDateKey(k) == \E i \in 1..(Len(k) - 3) : SubSeq(k, i, i + 3) = <<"d", "a", "t", "e">>

\* C18: for the two validated document types, every string field other than
\* card_number whose key contains "date" gets the verdict of ValidateDate.
C18_DateKeys ==
    (Returned /\ input.docType \in ValidatedTypes) =>
        \A k \in StringKeys :
            (k # KeyCardNumber /\ IsDateKey(k)) =>
                Extracted[k].Validation = Verdict(ValidateDate(Members[k].value.s))

\* A birth_date of the first day of Reiwa is valid, and a candidate that is
\* no date is invalid.
C18_Witness ==
    /\ Returned
    /\ input.docType = "driver_license"
    /\ KeyBirthDate \in StringKeys
    /\ Contains(Members[KeyBirthDate].value.s, <<"GAN">>)
    /\ Extracted[KeyBirthDate].Validation = Valid
    /\ KeyCandidate \in StringKeys
    /\ Extracted[KeyCandidate].Validation = Invalid

\* C19: a field whose key is neither card_number nor contains "date" has an
\* empty Validation and the Value and ConfidenceScore decoded from the
\* response; and a field that was validated keeps its Value, up to the
\* masking of card_number, and its ConfidenceScore.
C19_OthersUntouched ==
    Returned =>
        \A k \in DOMAIN Extracted :
            /\ (k # KeyCardNumber /\ ~IsDateKey(k)) =>
                  /\ Extracted[k].Validation = <<>>
                  /\ Extracted[k].Value = DecodeValue(Members[k].value)
                  /\ Extracted[k].ConfidenceScore = DecodeField(Members[k]).ConfidenceScore
            /\ (k # KeyCardNumber \/ ~input.masking) =>
                  /\ Extracted[k].Value = DecodeValue(Members[k].value)
                  /\ Extracted[k].ConfidenceScore = DecodeField(Members[k]).ConfidenceScore

\* C19 with the Validation of an unvalidated field equal to the one decoded
\* from the response instead of empty.
C19_OthersAsDecoded ==
    Returned =>
        \A k \in DOMAIN Extracted :
            /\ (k # KeyCardNumber /\ ~IsDateKey(k)) => Extracted[k] = DecodeField(Members[k])
            /\ (k # KeyCardNumber \/ ~input.masking) =>
                  /\ Extracted[k].Value = DecodeValue(Members[k].value)
                  /\ Extracted[k].ConfidenceScore = DecodeField(Members[k]).ConfidenceScore

\* The last 4 characters of s after twelve asterisks.
MaskedByCharacters(s) == Stars \o SubSeq(s, Len(s) - 3, Len(s))

\* C20: with masking, a string card_number of more than 4 characters is
\* returned as twelve asterisks and its last 4 characters.
C20_MaskLastFour ==
    (Returned /\ input.masking /\ KeyCardNumber \in StringKeys) =>
        LET value == Members[KeyCardNumber].value.s
        IN  /\ value = LicenseNumber =>
                  Extracted[KeyCardNumber].Value.s = Stars \o <<"9", "0", "1", "2">>
            /\ Len(value) > 4 =>
                  Bytes(Extracted[KeyCardNumber].Value.s) = Bytes(MaskedByCharacters(value))

\* C20 for card numbers of ASCII characters.
C20_MaskLastFourASCII ==
    (Returned /\ input.masking /\ KeyCardNumber \in StringKeys) =>
        LET value == Members[KeyCardNumber].value.s
        IN  (Len(value) > 4 /\ \A i \in 1..Len(value) : value[i] \notin Kanji) =>
                Extracted[KeyCardNumber].Value.s = MaskedByCharacters(value)

\* The result Extract returned.
Result == returned.result

\* The card number of the response, a string.
CardNumber == Members[KeyCardNumber].value.s

\* Extract returned a result for a response with a string card_number.
ReturnedCard == Returned /\ KeyCardNumber \in StringKeys

\* Whether the text of a response spells out s as the value of a member.
Exposes(text, s) ==
    \E k \in DOMAIN text.doc.members :
        /\ text.doc.members[k].value.t = "string"
        /\ text.doc.members[k].value.s = s

\* Whether the fields or the warning of the result hold s.
HeldInData(result, s) ==
    \/ \E k \in DOMAIN result.ExtractedData :
          /\ result.ExtractedData[k].Value.t = "string"
          /\ result.ExtractedData[k].Value.s = s
    \/ ~result.ForgeryWarning.isNil /\ result.ForgeryWarning.Reason = s

\* C21: with masking, a card number of more than 4 characters is in no part
\* of the result: not in ExtractedData, ForgeryWarning or RawResponse.
C21_MaskedEverywhere ==
    (ReturnedCard /\ input.masking /\ Len(CardNumber) > 4) =>
        /\ ~HeldInData(Result, CardNumber)
        /\ ~Exposes(Result.RawResponse, CardNumber)

\* C21 for ExtractedData and ForgeryWarning alone.
C21_MaskedInData ==
    (ReturnedCard /\ input.masking /\ Len(CardNumber) > 4) =>
        ~HeldInData(Result, CardNumber)

\* The names of the parts supplied that the document type lists in its
\* image parts: the parts the loop of Extract looks at.
Examined ==
    {n \in DOMAIN input.fileParts :
        \E i \in DOMAIN Documents[input.docType].ImageParts :
            Documents[input.docType].ImageParts[i] = n}

\* Neither the cleaned type of the part nor the type detected from its
\* content is supported.
Unsupported(part) ==
    /\ cleanMimeType(part.MimeType) \notin supportedMimeTypes
    /\ DetectContentType(part.Content) \notin supportedMimeTypes

\* Extract returned the error and a nil result without calling the model.
Rejected(err) ==
    /\ returned.err = err
    /\ returned.calls = 0
    /\ Result.isNil

\* The request passes validation: the document type is configured and
\* every part looked at has a supported type, declared or detected.
RequestValid ==
    /\ input.docType \in DOMAIN Documents
    /\ \A n \in Examined : ~Unsupported(input.fileParts[n])

HasWarningObject ==
    /\ KeyForgeryWarning \in DOMAIN Members
    /\ Members[KeyForgeryWarning].kind = "object"

\* The attributes of the warning of the response have the types of the
\* struct: a boolean and a string.
WellTypedWarning ==
    /\ Members[KeyForgeryWarning].has_signs_of_forgery.t \in {"bool", "absent"}
    /\ Members[KeyForgeryWarning].reason.t \in {"string", "absent"}

\* The warning of the response as a ForgeryWarning.
WarningOfResponse ==
    ForgeryWarning(FALSE,
                   /\ Members[KeyForgeryWarning].has_signs_of_forgery.t = "bool"
                   /\ Members[KeyForgeryWarning].has_signs_of_forgery.b,
                   IF Members[KeyForgeryWarning].reason.t = "string"
                   THEN Members[KeyForgeryWarning].reason.s ELSE <<>>)

\* C23: a forgery_warning object of the response is returned as
\* ForgeryWarning and is no entry of ExtractedData; and in every result a
\* ForgeryWarning that is not nil comes with no forgery_warning entry.
C23_WarningMoved ==
    Returned =>
        /\ HasWarningObject =>
              /\ Result.ForgeryWarning = WarningOfResponse
              /\ KeyForgeryWarning \notin DOMAIN Extracted
        /\ ~Result.ForgeryWarning.isNil => KeyForgeryWarning \notin DOMAIN Extracted

\* C23 for warnings whose attributes have the types of the struct.
C23_WarningMovedWellTyped ==
    Returned =>
        /\ (HasWarningObject /\ WellTypedWarning) =>
              /\ Result.ForgeryWarning = WarningOfResponse
              /\ KeyForgeryWarning \notin DOMAIN Extracted
        /\ (~Result.ForgeryWarning.isNil /\ WellTypedWarning) =>
              KeyForgeryWarning \notin DOMAIN Extracted

\* The names of the parts looked at, in the order of the image parts.
ExaminedSeq ==
    SelectSeq(Documents[input.docType].ImageParts, LAMBDA n : n \in DOMAIN input.fileParts)

\* The type Extract goes on with for a part: the cleaned type when it is
\* supported, the detected one otherwise.
EffectiveType(part) ==
    IF cleanMimeType(part.MimeType) \in supportedMimeTypes
    THEN cleanMimeType(part.MimeType)
    ELSE DetectContentType(part.Content)

\* The blob sent for the i-th part looked at.
BlobOf(i) == returned.prompt[2 * i + 1]

\* The bytes the claim expects for a part: the original for a PDF or when
\* PreprocessImage returns an error, the output of PreprocessImage otherwise.
ExpectedBytes(part) ==
    IF Contains(EffectiveType(part), <<"p", "d", "f">>)
       \/ PreprocessImage(part.Content, EffectiveType(part), input.encodeFails).err # "nil"
    THEN part.Content
    ELSE PreprocessImage(part.Content, EffectiveType(part), input.encodeFails).data

C25_OtherTypesUnannotated ==
    (Returned /\ input.docType \notin ValidatedTypes) =>
        \A k \in DOMAIN Extracted : Extracted[k].Validation = <<>>

\* C25 with the Validation decoded from the response instead of empty.
C25_OtherTypesAsDecoded ==
    (Returned /\ input.docType \notin ValidatedTypes) =>
        \A k \in DOMAIN Extracted :
            Extracted[k].Validation = DecodeField(Members[k]).Validation

\* What Extract returns for the same request and response without masking.
Unmasked ==
    Extract(input.fileParts, input.docType, FALSE, input.generated, input.encodeFails)

\* Whether two fields differ in nothing, or in the string of Value only.
SameButValue(f, g) ==
    /\ f.ConfidenceScore = g.ConfidenceScore
    /\ f.Validation = g.Validation
    /\ f.Value.t = g.Value.t

\* Whether two returns of Extract are the same but for the Value of
\* ExtractedData["card_number"].
SameButCardValue(a, b) ==
    /\ a.err = b.err
    /\ a.calls = b.calls
    /\ a.prompt = b.prompt
    /\ a.result.isNil = b.result.isNil
    /\ a.result.ForgeryWarning = b.result.ForgeryWarning
    /\ a.result.RawResponse = b.result.RawResponse
    /\ DOMAIN a.result.ExtractedData = DOMAIN b.result.ExtractedData
    /\ \A k \in DOMAIN a.result.ExtractedData :
          IF k = KeyCardNumber
          THEN SameButValue(a.result.ExtractedData[k], b.result.ExtractedData[k])
          ELSE a.result.ExtractedData[k] = b.result.ExtractedData[k]

\* C26: what Extract returns with masking is what it returns without, but
\* for the Value of card_number; the Validation of card_number is the
\* verdict on the number of the response, not on the masked one.
C26_MaskingAfterValidation ==
    called = "Extract" =>
        /\ SameButCardValue(returned, Unmasked)
        /\ (ReturnedCard /\ input.docType = "driver_license") =>
              Extracted[KeyCardNumber].Validation =
                  Verdict(ValidateDriverLicenseNumber(CardNumber))
        /\ (ReturnedCard /\ input.docType = "individual_number_card") =>
              Extracted[KeyCardNumber].Validation = Verdict(ValidateMyNumber(CardNumber))

\* A valid licence number is returned masked and marked valid.
C26_Witness ==
    /\ ReturnedCard
    /\ input.masking
    /\ input.docType = "driver_license"
    /\ CardNumber = LicenseNumber
    /\ Extracted[KeyCardNumber].Value.s = Stars \o <<"9", "0", "1", "2">>
    /\ Extracted[KeyCardNumber].Validation = Valid
    /\ returned # Unmasked

\* The MIME type that names the format of encoded bytes.
MimeOf(format) ==
    IF format = "jpeg" THEN MimeJPEG
    ELSE IF format = "png" THEN MimePNG
    ELSE IF format = "webp" THEN MimeWEBP
    ELSE IF format = "gif" THEN MimeGIF
    ELSE IF format = "pdf" THEN MimePDF
    ELSE MimeOctetStream

\* The bytes sent for the i-th part looked at are not those supplied:
\* preprocessing encoded the image anew.
ReEncoded(i) == BlobOf(i).Data # input.fileParts[ExaminedSeq[i]].Content

\* C27: when preprocessing encoded the image of a part anew, the MIME type
\* of the blob sent names the format of the bytes sent.
C27_BlobTypeMatches ==
    (called = "Extract" /\ RequestValid) =>
        \A i \in 1..Len(ExaminedSeq) :
            ReEncoded(i) => BlobOf(i).MIMEType = MimeOf(BlobOf(i).Data.format)

\* C27 for parts whose type is image/jpeg or image/png.
C27_BlobTypeMatchesJPEGPNG ==
    (called = "Extract" /\ RequestValid) =>
        \A i \in 1..Len(ExaminedSeq) :
            (ReEncoded(i) /\ BlobOf(i).MIMEType \in {MimeJPEG, MimePNG}) =>
                BlobOf(i).MIMEType = MimeOf(BlobOf(i).Data.format)

\* a == b on float64: false when either side is NaN.
FloatEqual(a, b) == ~a.nan /\ ~b.nan /\ a.num * b.den = b.num * a.den

\* Every candidate angle has the same score for the image.
Degenerate ==
    LET first == ScoreAt(input, -maxAngle)
    IN  \A a \in Candidates : FloatEqual(ScoreAt(input, a), first)

\* C28: for an image on which every candidate angle scores the same,
\* findBestSkewAngle returns the first candidate, -10.0, and deskew returns
\* the image rotated by -10 degrees.
C28_DegenerateRotated ==
    Degenerate =>
        /\ called = "findBestSkewAngle" => returned = -maxAngle
        /\ called = "deskew" =>
              returned = [input EXCEPT !.ops = <<Op("Rotate", <<-maxAngle, 0>>)>>]

\* A picture whose edge image is black at every angle comes back rotated.
C28_Witness ==
    /\ called = "deskew"
    /\ input.height >= 1
    /\ input.peaks = {}
    /\ Degenerate
    /\ returned # input
    /\ returned.ops = <<Op("Rotate", <<-maxAngle, 0>>)>>

---------------------------------------------------------------------------
(* Single-digit errors of ValidateMyNumber *)

\* The numbers that differ from n in exactly one of the 11 payload digits.
PayloadEdits(n) ==
    {[n EXCEPT ![i] = d] : i \in 1..11, d \in Digits} \ {n}

\* Both payloads leave a remainder of 0 or 1, so both have check digit 0.
BothCheckZero(n, m) == MyNumberRemainder(n) <= 1 /\ MyNumberRemainder(m) <= 1

\* C29: a valid 12-digit number with one payload digit changed is invalid,
\* except exactly when the weighted sums of both payloads leave a remainder
\* of 0 or 1 modulo 11.
C29_SingleDigitErrors ==
    (called = "ValidateMyNumber" /\ TwelveDigits(input) /\ returned) =>
        \A m \in PayloadEdits(input) : ValidateMyNumber(m) <=> BothCheckZero(input, m)

\* A valid number that stays valid with one payload digit changed.
C29_Witness ==
    /\ called = "ValidateMyNumber"
    /\ TwelveDigits(input)
    /\ returned
    /\ \E m \in PayloadEdits(input) : ValidateMyNumber(m) /\ BothCheckZero(input, m)
    /\ \E m \in PayloadEdits(input) : ~ValidateMyNumber(m)

\* The keys of the result whose response value is no string.
OtherKeys == DOMAIN Extracted \ StringKeys

\* C30: a field whose value is no string has an empty Validation and the
\* value decoded from the response, whatever the document type, the key and
\* masking.
C30_NonStringsUntouched ==
    Returned =>
        \A k \in OtherKeys :
            /\ Extracted[k].Validation = <<>>
            /\ Extracted[k].Value = DecodeValue(Members[k].value)

\* C30 with the Validation decoded from the response instead of empty.
C30_NonStringsAsDecoded ==
    Returned =>
        \A k \in OtherKeys : Extracted[k] = DecodeField(Members[k])

===========================================================================
